---- MODULE Spec2Model ----
(***************************************************************************)
(* Model of the KCM back-office reporting backend:                         *)
(*   - SingleFlight.do          (backend/app/core/singleflight.py)         *)
(*   - run_client_pnl_incremental_refresh                                  *)
(*                              (backend/app/services/client_pnl_service.py*)
(*                               and backend/incremental_refresh_client_pnl*)
(*   - mt5_incremental_refresh, mt4live2_incremental_refresh             *)
(*                              (backend/app/services/etl_pg_service.py)   *)
(*   - PnlEtlService.run_pnl_sync (backend/app/services/etl_service.py)    *)
(* The specifications share the module: SpecSF drives the request          *)
(* coalescer, SpecRefresh the client-PnL refresh pipeline, SpecEtl the    *)
(* source ETL, SpecConnect the refresh's configuration and connections,    *)
(* SpecOverlap two refresh invocations running at the same time, SpecRead   *)
(* the cached read path get_pnl_analysis                                   *)
(*                              (backend/app/services/clickhouse_service.py*)
(***************************************************************************)
EXTENDS Integers, Sequences, FiniteSets, TLC

VARIABLES
  \* ---- SingleFlight ----
  mu,         \* self._mu: 0 when free, else the thread holding it
  registry,   \* self._calls: key -> id of the registered _Call, 0 when absent
  callObj,    \* the _Call objects created so far: id -> [event, result, error]
  sfpc,       \* per thread: position inside do()
  sfkey,      \* per thread: the key argument of the current do()
  sfcall,     \* per thread: the local variable `call`
  sfowner,    \* per thread: the local variable `is_owner`
  fnLog,      \* history: id of _Call -> sequence of outcomes fn() produced for it
  fnBy,       \* history: id of _Call -> threads that invoked fn() for it
  returned,   \* history: outcomes of finished do() invocations
  fnTotal,    \* history: number of fn() invocations so far
  started,    \* history: number of do() invocations begun
  sfhist,     \* history: the latest _Call made for each key, the records already
              \* popped, and whether the latest record of a caller's key was
              \* finished / popped when the caller entered
  \* ---- client PnL refresh: stores ----
  pnl_user_summary,           \* source table of server MT5 (one row per login)
  pnl_user_summary_mt4live2,  \* source table of server MT4Live2
  users,                      \* fxbackoffice.users (MySQL, secondary store)
  pnl_client_accounts,        \* committed account rows
  pnl_client_summary,         \* committed summary rows
  clock,                      \* the time: every write to a store takes one tick
  \* ---- client PnL refresh: one invocation ----
  pc,                 \* position inside run_client_pnl_incremental_refresh
  tx_accounts,        \* pnl_client_accounts as seen inside the open transaction
  tx_summary,         \* pnl_client_summary as seen inside the open transaction
  temp_candidates,    \* TEMP TABLE temp_candidates
  temp_fx_user_map,   \* TEMP TABLE temp_fx_user_map
  steps,              \* the step entries gathered so far
  result,             \* the dict the last invocation returned
  \* ---- client PnL refresh: history ----
  hist,               \* what the last invocation saw (for stating properties)
  \* ---- source ETL (etl_pg_service.py, etl_service.py) ----
  deals,              \* MySQL: the highest deal / ticket id present, per dataset
  etl_watermarks,     \* committed last_deal_id per dataset (NULL: no row)
  closed_totals,      \* committed additive columns of the dataset's summary table
  advisory,           \* pg advisory lock per dataset: 0 when free, else the holder
  epc,                \* per invocation: position inside the ETL function
  efn,                \* per invocation: which function runs, and its mode
  last_deal_id,       \* per invocation: the local last_deal_id / since_ticket
  max_deal_id,        \* per invocation: the local max_deal_id / window_max
  etx,                \* per invocation: the open transaction's pending writes
  eresult,            \* per invocation: the returned result / raised error
  ehist,              \* history: the committed values an invocation started from
  \* ---- client PnL refresh: configuration and connections ----
  environ,            \* os.environ: the required settings that are present
  cpc,                \* position inside the connection phase of the refresh
  pg,                 \* the local `pg`: "none", or the connection's state
  mysql_fx,           \* the local `mysql_fx`: "none", or the connection's state
  cresult,            \* what the invocation reported
  chist,              \* history: the connections open when a setting was found
                      \* missing, and the invocation's passes over the connect calls
  \* ---- client PnL refresh: overlapping invocations ----
  opc,                \* per invocation: position inside the refresh
  ocand,              \* per invocation: its TEMP TABLE temp_candidates
  omap,               \* per invocation: its TEMP TABLE temp_fx_user_map
  otx,                \* per invocation: the rows its open transaction has written
  ohist,              \* history: what one refresh alone would have produced from
                      \* the tables the overlap started on, and how the two ended
                      \* (once both have ended, the outcome only)
  \* ---- client PnL refresh: the zipcode report of a large run ----
  zreport,            \* the inputs of the mapping step's report and what it returned
  \* ---- read path get_pnl_analysis (clickhouse_service.py) ----
  redis,              \* the Redis entry of the cache key: 0 when absent, else the result
  ch_queries,         \* number of queries sent to ClickHouse
  ppc,                \* per thread: position inside _execute_pnl_query
  result_dict,        \* per thread: the local result_dict built from the query
  rhist               \* history: queries that returned rows and the value stored
                      \* since the entry last expired, the requests that missed the
                      \* cache before the value was stored and have not entered yet,
                      \* how each request was served, and the number of cache hits

sfvars == <<mu, registry, callObj, sfpc, sfkey, sfcall, sfowner,
            fnLog, fnBy, returned, fnTotal, started, sfhist>>

storevars == <<pnl_user_summary, pnl_user_summary_mt4live2, users,
               pnl_client_accounts, pnl_client_summary, clock>>

runvars == <<pc, tx_accounts, tx_summary, temp_candidates, temp_fx_user_map,
             steps, result, hist>>

etlvars == <<deals, etl_watermarks, closed_totals, advisory, epc, efn,
             last_deal_id, max_deal_id, etx, eresult, ehist>>

connvars == <<environ, cpc, pg, mysql_fx, cresult, chist>>

overlapvars == <<opc, ocand, omap, otx, ohist>>

readvars == <<redis, ch_queries, ppc, result_dict, rhist>>

vars == <<sfvars, storevars, runvars, etlvars, connvars, overlapvars, zreport, readvars>>

\* what each part of the model leaves alone
outsideSF == <<storevars, runvars, etlvars, connvars, overlapvars, zreport, readvars>>
outsideRefresh == <<sfvars, etlvars, connvars, overlapvars, zreport, readvars>>
outsideEtl == <<sfvars, storevars, runvars, connvars, overlapvars, zreport, readvars>>
outsideConnect == <<sfvars, storevars, runvars, etlvars, overlapvars, zreport, readvars>>
outsideOverlap == <<sfvars, runvars, etlvars, connvars, zreport, readvars>>
outsideReport == <<sfvars, storevars, runvars, etlvars, connvars, overlapvars, readvars>>
outsideRead == <<storevars, runvars, etlvars, connvars, overlapvars, zreport>>

\* ---------------------------------------------------------------------------
\* Bounds
\* ---------------------------------------------------------------------------
NumThreads == 3
NumKeys == 2
MaxDoCalls == 3

Threads == 1..NumThreads
Keys == 1..NumKeys

NumClients == 2
NumLogins == 2
MaxClock == 3

Clients == 1..NumClients
Logins == 1..NumLogins
Servers == {"MT5", "MT4Live2"}
Currencies == {"CEN", "USD"}
Zipcodes == {1, 2}

\* SQL NULL (ids, timestamps and amounts of the model are >= 0)
NULL == -1

\* Python's None, for call.result / call.error / an absent registry entry
None == 0

\* ---------------------------------------------------------------------------
\* SingleFlight
\* ---------------------------------------------------------------------------

\* _Call.__init__: event not set, result None, error None
NewCall == [event |-> FALSE, result |-> None, error |-> None]

InitSF ==
  /\ mu = 0
  /\ registry = [k \in Keys |-> None]
  /\ callObj = << >>
  /\ sfpc = [t \in Threads |-> "idle"]
  /\ sfkey = [t \in Threads |-> 1]
  /\ sfcall = [t \in Threads |-> None]
  /\ sfowner = [t \in Threads |-> FALSE]
  /\ fnLog = << >>
  /\ fnBy = << >>
  /\ returned = {}
  /\ fnTotal = 0
  /\ started = 0
  /\ sfhist = [lastCall |-> [k \in Keys |-> None], popped |-> {},
               finishedAtEntry |-> [t \in Threads |-> {}],
               poppedAtEntry |-> [t \in Threads |-> {}]]

\* a thread enters do(key, fn) and reaches `with self._mu`
DoEnter(t, k) ==
  /\ sfpc[t] = "idle"
  /\ started < MaxDoCalls
  /\ started' = started + 1
  /\ sfpc' = [sfpc EXCEPT ![t] = "lock"]
  /\ sfkey' = [sfkey EXCEPT ![t] = k]
  /\ sfcall' = [sfcall EXCEPT ![t] = None]
  /\ sfowner' = [sfowner EXCEPT ![t] = FALSE]
  /\ sfhist' = [sfhist EXCEPT
       !.finishedAtEntry[t] = {c \in {sfhist.lastCall[k]} \ {None} : callObj[c].event},
       !.poppedAtEntry[t] = {sfhist.lastCall[k]} \cap sfhist.popped]
  /\ UNCHANGED <<mu, registry, callObj, fnLog, fnBy, returned, fnTotal>>
  /\ UNCHANGED outsideSF

\* `with self._mu:` (first block) - acquire
DoAcquire(t) ==
  /\ sfpc[t] = "lock"
  /\ mu = 0
  /\ mu' = t
  /\ sfpc' = [sfpc EXCEPT ![t] = "check"]
  /\ UNCHANGED <<registry, callObj, sfkey, sfcall, sfowner, fnLog, fnBy, returned, fnTotal, started>>
  /\ UNCHANGED sfhist
  /\ UNCHANGED outsideSF

\* (mutation) the lock stays with the thread that leaves the block
LockAfterBlockHeld(holder) == holder

\* the end of a `with self._mu:` block releases the lock
LockAfterBlock(holder) == 0

\* (mutation) every caller takes the owner branch
IsOwnerAlways(t) == TRUE

\* the decision `if key in self._calls`
IsOwner(t) == registry[sfkey[t]] = None

\* body of the first locked block, and release of the lock
DoCheckRegister(t) ==
  /\ sfpc[t] = "check"
  /\ mu = t
  /\ IF IsOwner(t)
       THEN LET id == Len(callObj) + 1 IN
            /\ callObj' = Append(callObj, NewCall)
            /\ fnLog' = Append(fnLog, << >>)
            /\ fnBy' = Append(fnBy, {})
            /\ sfhist' = [sfhist EXCEPT !.lastCall[sfkey[t]] = id]
            /\ registry' = [registry EXCEPT ![sfkey[t]] = id]
            /\ sfcall' = [sfcall EXCEPT ![t] = id]
            /\ sfowner' = [sfowner EXCEPT ![t] = TRUE]
            /\ sfpc' = [sfpc EXCEPT ![t] = "run"]
       ELSE /\ sfcall' = [sfcall EXCEPT ![t] = registry[sfkey[t]]]
            /\ sfowner' = [sfowner EXCEPT ![t] = FALSE]
            /\ sfpc' = [sfpc EXCEPT ![t] = "wait"]
            /\ UNCHANGED <<callObj, fnLog, fnBy, registry, sfhist>>
  /\ mu' = LockAfterBlock(t)
  /\ UNCHANGED <<sfkey, returned, fnTotal, started>>
  /\ UNCHANGED outsideSF

\* `call.result = fn()` when fn returns: every invocation of the producer
\* yields a value no other invocation yields (fnTotal numbers them)
DoFnReturn(t) ==
  /\ sfpc[t] = "run"
  /\ LET c == sfcall[t]
         v == fnTotal + 1 IN
     /\ fnTotal' = v
     /\ fnLog' = [fnLog EXCEPT ![c] = Append(@, [kind |-> "value", val |-> v])]
     /\ fnBy' = [fnBy EXCEPT ![c] = @ \cup {t}]
     /\ callObj' = [callObj EXCEPT ![c].result = v]
  /\ sfpc' = [sfpc EXCEPT ![t] = "set"]
  /\ UNCHANGED <<mu, registry, sfkey, sfcall, sfowner, returned, started>>
  /\ UNCHANGED sfhist
  /\ UNCHANGED outsideSF

\* (mutation) the except branch drops the error
CapturedErrorLost(e) == None

\* what `except Exception as e` stores when fn raises e
CapturedError(e) == e

\* `call.result = fn()` when fn raises: `except Exception as e: call.error = e`
DoFnRaise(t) ==
  /\ sfpc[t] = "run"
  /\ LET c == sfcall[t]
         e == fnTotal + 1 IN
     /\ fnTotal' = e
     /\ fnLog' = [fnLog EXCEPT ![c] = Append(@, [kind |-> "error", val |-> e])]
     /\ fnBy' = [fnBy EXCEPT ![c] = @ \cup {t}]
     /\ callObj' = [callObj EXCEPT ![c].error = CapturedError(e)]
  /\ sfpc' = [sfpc EXCEPT ![t] = "set"]
  /\ UNCHANGED <<mu, registry, sfkey, sfcall, sfowner, returned, started>>
  /\ UNCHANGED sfhist
  /\ UNCHANGED outsideSF

\* (mutation) the completion signal is not given
SignalledNever(call) == call

\* call.event.set()
Signalled(call) == [call EXCEPT !.event = TRUE]

\* finally: `call.event.set()`
DoSetEvent(t) ==
  /\ sfpc[t] = "set"
  /\ callObj' = [callObj EXCEPT ![sfcall[t]] = Signalled(@)]
  /\ sfpc' = [sfpc EXCEPT ![t] = "poplock"]
  /\ UNCHANGED <<mu, registry, sfkey, sfcall, sfowner, fnLog, fnBy, returned, fnTotal, started>>
  /\ UNCHANGED sfhist
  /\ UNCHANGED outsideSF

\* finally: `with self._mu:` (second block) - acquire
DoPopAcquire(t) ==
  /\ sfpc[t] = "poplock"
  /\ mu = 0
  /\ mu' = t
  /\ sfpc' = [sfpc EXCEPT ![t] = "pop"]
  /\ UNCHANGED <<registry, callObj, sfkey, sfcall, sfowner, fnLog, fnBy, returned, fnTotal, started>>
  /\ UNCHANGED sfhist
  /\ UNCHANGED outsideSF

\* (mutation) the owner leaves its record in the registry
PoppedKeep(calls, key) == calls

\* self._calls.pop(key, None)
Popped(calls, key) == [calls EXCEPT ![key] = None]

\* finally: `self._calls.pop(key, None)` and release of the lock
DoPop(t) ==
  /\ sfpc[t] = "pop"
  /\ mu = t
  /\ registry' = Popped(registry, sfkey[t])
  /\ sfhist' = [sfhist EXCEPT !.popped = @ \cup {sfcall[t]}]
  /\ mu' = LockAfterBlock(t)
  /\ sfpc' = [sfpc EXCEPT ![t] = "ret"]
  /\ UNCHANGED <<callObj, sfkey, sfcall, sfowner, fnLog, fnBy, returned, fnTotal, started>>
  /\ UNCHANGED outsideSF

\* else: `call.event.wait()` returns once the event is set
DoWait(t) ==
  /\ sfpc[t] = "wait"
  /\ callObj[sfcall[t]].event
  /\ sfpc' = [sfpc EXCEPT ![t] = "ret"]
  /\ UNCHANGED <<mu, registry, callObj, sfkey, sfcall, sfowner, fnLog, fnBy, returned, fnTotal, started>>
  /\ UNCHANGED sfhist
  /\ UNCHANGED outsideSF

\* `if call.error is not None: raise call.error` / `return call.result`
DoOutcome(c) ==
  IF callObj[c].error # None
    THEN [kind |-> "error", val |-> callObj[c].error]
    ELSE [kind |-> "value", val |-> callObj[c].result]

\* the end of do(): the caller raises or returns
DoFinish(t) ==
  /\ sfpc[t] = "ret"
  /\ returned' = returned \cup
       {[thread |-> t, call |-> sfcall[t], owner |-> sfowner[t],
         kind |-> DoOutcome(sfcall[t]).kind, val |-> DoOutcome(sfcall[t]).val]}
  /\ sfpc' = [sfpc EXCEPT ![t] = "idle"]
  /\ sfhist' = [sfhist EXCEPT !.finishedAtEntry[t] = {}, !.poppedAtEntry[t] = {}]
  /\ UNCHANGED <<mu, registry, callObj, sfkey, sfcall, sfowner, fnLog, fnBy, fnTotal, started>>
  /\ UNCHANGED outsideSF

NextSF ==
  \/ \E t \in Threads, k \in Keys : DoEnter(t, k)
  \/ \E t \in Threads : DoAcquire(t)
  \/ \E t \in Threads : DoCheckRegister(t)
  \/ \E t \in Threads : DoFnReturn(t)
  \/ \E t \in Threads : DoFnRaise(t)
  \/ \E t \in Threads : DoSetEvent(t)
  \/ \E t \in Threads : DoPopAcquire(t)
  \/ \E t \in Threads : DoPop(t)
  \/ \E t \in Threads : DoWait(t)
  \/ \E t \in Threads : DoFinish(t)

\* ---------------------------------------------------------------------------
\* Client PnL refresh: SQL helpers
\* ---------------------------------------------------------------------------

\* ROUND(a / b, 0) on numeric: half away from zero (b > 0)
RoundDiv(a, b) ==
  LET m == IF a >= 0 THEN a ELSE 0 - a
      q == (m \div b) + (IF 2 * (m % b) >= b THEN 1 ELSE 0)
  IN IF a >= 0 THEN q ELSE 0 - q

\* text ordering of the strings MIN()/MAX() are applied to
StrRank(s) ==
  CASE s = "CEN" -> 1
    [] s = "MT4Live2" -> 2
    [] s = "MT5" -> 3
    [] s = "USD" -> 4

StrMin(S) == CHOOSE x \in S : \A y \in S : StrRank(x) <= StrRank(y)
StrMax(S) == CHOOSE x \in S : \A y \in S : StrRank(x) >= StrRank(y)

\* MAX() over a column: NULLs are ignored, no non-NULL value gives NULL
SqlMax(S) ==
  IF S \ {NULL} = {} THEN NULL
  ELSE CHOOSE x \in S \ {NULL} : \A y \in S \ {NULL} : x >= y

\* a > b in SQL: NULL on either side is not true
SqlGt(a, b) == a # NULL /\ b # NULL /\ a > b

\* SUM(col) over a set of rows
RECURSIVE SumOf(_, _)
SumOf(rows, col) ==
  IF rows = {} THEN 0
  ELSE LET r == CHOOSE x \in rows : TRUE
       IN r[col] + SumOf(rows \ {r}, col)

\* the source rows of both servers, each tagged with its server literal
\* ('MT5' AS server / 'MT4Live2' AS server)
TaggedSource ==
  {[srv |-> "MT5", row |-> r] : r \in pnl_user_summary}
    \cup {[srv |-> "MT4Live2", row |-> r] : r \in pnl_user_summary_mt4live2}

\* SELECT DISTINCT user_id ... WHERE user_id IS NOT NULL  UNION  (same, mt4live2)
SourceUserIds == {t.row.user_id : t \in TaggedSource} \ {NULL}

\* src_max: MAX(last_updated) per user_id over both source tables
SrcLu(u) == SqlMax({t.row.last_updated : t \in {x \in TaggedSource : x.row.user_id = u}})

\* LEFT JOIN pnl_client_summary cs ... WHERE cs.client_id IS NULL
HasSummary(summary, u) == \E cs \in summary : cs.client_id = u

\* (mutation) the anti-join filter is dropped
IsMissingAll(summary, u) == TRUE

\* the 'missing' rule
IsMissing(summary, u) == ~HasSummary(summary, u)

\* (mutation) the lag comparison requires a gap of more than one tick
LagRuleStrict(src_lu, cs_lu) == SqlGt(src_lu, cs_lu + 1)

\* (mutation) the lag comparison is not strict
LagRuleNonStrict(src_lu, cs_lu) == src_lu # NULL /\ cs_lu # NULL /\ src_lu >= cs_lu

\* (mutation) a NULL src_lu counts as newer than any summary
LagRuleNullNewer(src_lu, cs_lu) == src_lu = NULL \/ SqlGt(src_lu, cs_lu)

\* WHERE sm.src_lu > cs.last_updated
LagRule(src_lu, cs_lu) == SqlGt(src_lu, cs_lu)

\* the 'lag' rule: JOIN pnl_client_summary cs ON cs.client_id = sm.user_id
IsLagging(summary, u) ==
  \E cs \in summary : cs.client_id = u /\ LagRule(SrcLu(u), cs.last_updated)

\* INSERT ... ON CONFLICT (client_id) DO NOTHING into temp_candidates
InsertCandidates(table, ids, reason) ==
  table \cup {[client_id |-> u, reason |-> reason] :
                u \in {x \in ids : ~\E c \in table : c.client_id = x}}

\* temp_candidates after the two INSERTs of the candidates step
StagedCandidates(summary) ==
  LET missing == InsertCandidates({}, {u \in SourceUserIds : IsMissing(summary, u)}, "missing")
  IN InsertCandidates(missing, {u \in SourceUserIds : IsLagging(summary, u)}, "lag")

CandIds(cands) == {c.client_id : c \in cands}

\* CASE WHEN currency = 'CEN' THEN ROUND(COALESCE(x, 0) / 100.0, 4)
\*      ELSE ROUND(COALESCE(x, 0), 4) END
\* x is held in units of 10^-unit_exp (2 for money, 6 for lots), the result in
\* units of 10^-4
ToUsd(currency, x, unit_exp) ==
  LET v == IF x = NULL THEN 0 ELSE x
      scale == IF unit_exp = 2 THEN 100 ELSE 1   \* 10^-2 -> 10^-4 is exact
      dv == IF unit_exp = 2 THEN 1 ELSE 100      \* 10^-6 -> 10^-4 rounds
  IN IF currency = "CEN"
       THEN RoundDiv(v * scale, dv * 100)
       ELSE RoundDiv(v * scale, dv)

\* CTE src + combined: the candidates' source rows, converted
Combined(cands) ==
  {[client_id |-> t.row.user_id,
    login |-> t.row.login,
    server |-> t.srv,
    currency |-> t.row.currency,
    balance_usd |-> ToUsd(t.row.currency, t.row.user_balance, 2),
    volume_lots |-> ToUsd(t.row.currency,
                          t.row.closed_sell_volume_lots + t.row.closed_buy_volume_lots, 6),
    overnight_volume_lots |-> ToUsd(t.row.currency,
                          t.row.closed_sell_overnight_volume_lots
                            + t.row.closed_buy_overnight_volume_lots, 6),
    last_updated |-> t.row.last_updated] :
   t \in {x \in TaggedSource : x.row.user_id # NULL /\ x.row.user_id \in CandIds(cands)}}

\* the GROUP BY key of CTE rolled
RolledKey(r) == <<r.client_id, r.login>>

\* (mutation) the zero-volume branch yields 0.0000
AutoSwapFreeStatusZero(volume, overnight) ==
  IF volume = 0 THEN 0
  ELSE RoundDiv((volume - overnight) * 10000, volume)

\* CASE WHEN r.volume_lots = 0 THEN -1.0000
\*      ELSE ROUND(1 - (overnight / NULLIF(volume, 0)), 4) END   (units 10^-4)
AutoSwapFreeStatus(volume, overnight) ==
  IF volume = 0 THEN -10000
  ELSE RoundDiv((volume - overnight) * 10000, volume)

\* CTE rolled, with the auto_swap_free_status the INSERT's SELECT adds
Rolled(cands) ==
  LET comb == Combined(cands)
      keys == {RolledKey(r) : r \in comb}
      grp(k) == {r \in comb : RolledKey(r) = k}
  IN {[client_id |-> k[1],
       login |-> k[2],
       server |-> StrMin({r.server : r \in grp(k)}),
       currency |-> StrMax({r.currency : r \in grp(k)}),
       balance_usd |-> SumOf(grp(k), "balance_usd"),
       volume_lots |-> SumOf(grp(k), "volume_lots"),
       overnight_volume_lots |-> SumOf(grp(k), "overnight_volume_lots"),
       auto_swap_free_status |->
         AutoSwapFreeStatus(SumOf(grp(k), "volume_lots"),
                            SumOf(grp(k), "overnight_volume_lots")),
       last_updated |-> SqlMax({r.last_updated : r \in grp(k)})] : k \in keys}

AccountKey(a) == <<a.client_id, a.login, a.server>>

\* (mutation) on conflict the stored row is kept (DO NOTHING)
UpsertAccountsKeep(table, rows) ==
  table \cup {r \in rows : ~\E a \in table : AccountKey(a) = AccountKey(r)}

\* (mutation) on conflict the balance is added to the stored one
UpsertAccountsAdding(table, rows) ==
  {a \in table : ~\E r \in rows : AccountKey(r) = AccountKey(a)}
    \cup {IF \E a \in table : AccountKey(a) = AccountKey(r)
            THEN [r EXCEPT !.balance_usd =
                    @ + (CHOOSE a \in table : AccountKey(a) = AccountKey(r)).balance_usd]
            ELSE r : r \in rows}

\* INSERT INTO pnl_client_accounts ... ON CONFLICT (client_id, login, server)
\* DO UPDATE SET <every non-key column> = EXCLUDED.<column>
UpsertAccounts(table, rows) ==
  {a \in table : ~\E r \in rows : AccountKey(r) = AccountKey(a)} \cup rows

\* NOT EXISTS (SELECT 1 FROM pnl_user_summary s WHERE s.user_id = ca.client_id
\*             AND s.login = ca.login UNION ALL <the same on mt4live2>)
HasSourceRow(ca) ==
  \E t \in TaggedSource : t.row.user_id = ca.client_id /\ t.row.login = ca.login

\* (mutation) the DELETE is not joined to temp_candidates
InCandidateScopeAll(ca, cands) == TRUE

\* DELETE ... USING temp_candidates c WHERE ca.client_id = c.client_id
InCandidateScope(ca, cands) == ca.client_id \in CandIds(cands)

\* the rows the orphan DELETE removes
Orphans(table, cands) ==
  {ca \in table : InCandidateScope(ca, cands) /\ ~HasSourceRow(ca)}

\* ---------------------------------------------------------------------------
\* Client PnL refresh: mapping and summary
\* ---------------------------------------------------------------------------

\* the ids of a set, as a list (SELECT client_id FROM temp_candidates)
RECURSIVE SortedSeq(_)
SortedSeq(S) ==
  IF S = {} THEN << >>
  ELSE LET m == CHOOSE x \in S : \A y \in S : x <= y
       IN <<m>> \o SortedSeq(S \ {m})

BatchSize == 1000

\* _chunked(seq, size): [seq[i : i + size] for i in range(0, len(seq), size)]
RECURSIVE Chunked(_, _)
Chunked(seq, size) ==
  IF Len(seq) = 0 THEN << >>
  ELSE IF Len(seq) <= size THEN <<seq>>
  ELSE <<SubSeq(seq, 1, size)>> \o Chunked(SubSeq(seq, size + 1, Len(seq)), size)

\* mapped_enabled = 1 if int(is_enabled) == 1 else 0, None when isEnabled is None
MappedEnabled(is_enabled) ==
  IF is_enabled = NULL THEN NULL ELSE IF is_enabled = 1 THEN 1 ELSE 0

\* SELECT id AS client_id, isEnabled, zipcode FROM users WHERE id IN (batch)
FetchBatch(batch) ==
  {[client_id |-> u.id, zipcode |-> u.zipcode, is_enabled |-> MappedEnabled(u.isEnabled)] :
     u \in {x \in users : \E i \in 1..Len(batch) : batch[i] = x.id}}

\* mapping_rows: the rows of every batch, in turn
FetchMapping(client_ids) ==
  LET batches == Chunked(client_ids, BatchSize)
  IN UNION {FetchBatch(batches[i]) : i \in 1..Len(batches)}

\* m.zipcode of the LEFT JOIN temp_fx_user_map (NULL when no row)
MapZipcode(map, u) ==
  IF \E m \in map : m.client_id = u
    THEN (CHOOSE m \in map : m.client_id = u).zipcode ELSE NULL

\* m.is_enabled of the LEFT JOIN temp_fx_user_map (NULL when no row)
MapEnabled(map, u) ==
  IF \E m \in map : m.client_id = u
    THEN (CHOOSE m \in map : m.client_id = u).is_enabled ELSE NULL

\* s.zipcode of the LEFT JOIN pnl_client_summary (NULL when no row)
SummaryZipcode(summary, u) ==
  IF \E cs \in summary : cs.client_id = u
    THEN (CHOOSE cs \in summary : cs.client_id = u).zipcode ELSE NULL

\* WHERE m.zipcode IS NOT NULL AND (m.zipcode IS DISTINCT FROM s.zipcode)
ZipcodeChanged(cands, map, summary) ==
  {u \in CandIds(cands) :
     MapZipcode(map, u) # NULL /\ MapZipcode(map, u) # SummaryZipcode(summary, u)}

\* (mutation) the report has no LIMIT
ZipcodeDetailsUncapped(cands, map, summary) ==
  LET ids == SortedSeq(ZipcodeChanged(cands, map, summary))
  IN [i \in 1..Len(ids) |-> [clientid |-> ids[i],
                             before |-> SummaryZipcode(summary, ids[i]),
                             after |-> MapZipcode(map, ids[i])]]

ZipcodeDetailLimit == 100

\* ... ORDER BY c.client_id LIMIT 100
ZipcodeDetails(cands, map, summary) ==
  LET ids == SortedSeq(ZipcodeChanged(cands, map, summary))
      n == IF Len(ids) <= ZipcodeDetailLimit THEN Len(ids) ELSE ZipcodeDetailLimit
  IN [i \in 1..n |-> [clientid |-> ids[i],
                      before |-> SummaryZipcode(summary, ids[i]),
                      after |-> MapZipcode(map, ids[i])]]

\* (mutation) the upsert keeps the stored zipcode when the mapping has none
UpsertZipcodeKeep(map, summary, u) ==
  IF MapZipcode(map, u) # NULL THEN MapZipcode(map, u) ELSE SummaryZipcode(summary, u)

\* SELECT ..., m.zipcode, ...  /  DO UPDATE SET zipcode = EXCLUDED.zipcode
UpsertZipcode(map, summary, u) == MapZipcode(map, u)

\* SELECT ..., COALESCE(m.is_enabled, 1) / DO UPDATE SET is_enabled = EXCLUDED.is_enabled
UpsertEnabled(map, summary, u) ==
  IF MapEnabled(map, u) # NULL THEN MapEnabled(map, u) ELSE 1

\* (mutation) the accounts are counted by login alone
AccountCountByLogin(rows) == Cardinality({a.login : a \in rows})

\* COUNT(DISTINCT (a.login, a.server))
AccountCount(rows) == Cardinality({<<a.login, a.server>> : a \in rows})

\* CTE agg joined to temp_fx_user_map: one row per candidate that has account rows
SummaryRows(accounts, cands, map, summary) ==
  LET own(u) == {a \in accounts : a.client_id = u}
  IN {[client_id |-> u,
       zipcode |-> UpsertZipcode(map, summary, u),
       is_enabled |-> UpsertEnabled(map, summary, u),
       total_balance_usd |-> SumOf(own(u), "balance_usd"),
       total_volume_lots |-> SumOf(own(u), "volume_lots"),
       total_overnight_volume_lots |-> SumOf(own(u), "overnight_volume_lots"),
       auto_swap_free_status |->
         AutoSwapFreeStatus(SumOf(own(u), "volume_lots"),
                            SumOf(own(u), "overnight_volume_lots")),
       account_count |-> AccountCount(own(u)),
       last_updated |-> SqlMax({a.last_updated : a \in own(u)})] :
     u \in {x \in CandIds(cands) : own(x) # {}}}

\* INSERT INTO pnl_client_summary ... ON CONFLICT (client_id) DO UPDATE SET ...
UpsertSummary(table, rows) ==
  {cs \in table : ~\E r \in rows : r.client_id = cs.client_id} \cup rows

\* ---------------------------------------------------------------------------
\* Client PnL refresh: the stores' other writers
\* ---------------------------------------------------------------------------

\* a source row as the source ETL writes it at time `now` (last_updated = now());
\* the amounts are a function of the write time so that every rewrite of a row
\* changes them: money in units of 10^-2, lots in units of 10^-6
SourceRow(login, uid, currency, now) ==
  [login |-> login,
   user_id |-> uid,
   currency |-> currency,
   user_balance |-> 150000 + (now - 1) * 101,
   closed_sell_volume_lots |-> (now - 1) * 1234567,
   closed_buy_volume_lots |-> (now - 1) * 500000,
   closed_sell_overnight_volume_lots |-> (now - 1) * 234567,
   closed_buy_overnight_volume_lots |-> 0,
   last_updated |-> now]

\* a source write is noted: it ends the quiet period
NoteSourceWrite == hist' = [hist EXCEPT !.quiet = 0]

\* the currency of the trading account a (server, login) pair names: both
\* currencies occur on each server, and a login number used on both servers
\* names a cent account on one and a dollar account on the other
AccountCurrency(srv, login) ==
  IF (srv = "MT5") = (login = 1) THEN "CEN" ELSE "USD"

\* the source ETL and the CRM write between refresh invocations
Quiescent == pc = "idle"

\* the source ETL upserts the row of a login (ON CONFLICT (login, symbol) DO UPDATE)
SourceUpsert(srv, login, uid) ==
  /\ Quiescent
  /\ clock < MaxClock
  /\ clock' = clock + 1
  /\ LET row == SourceRow(login, uid, AccountCurrency(srv, login), clock + 1) IN
     IF srv = "MT5"
       THEN /\ pnl_user_summary' =
                 {r \in pnl_user_summary : r.login # login} \cup {row}
            /\ UNCHANGED pnl_user_summary_mt4live2
       ELSE /\ pnl_user_summary_mt4live2' =
                 {r \in pnl_user_summary_mt4live2 : r.login # login} \cup {row}
            /\ UNCHANGED pnl_user_summary
  /\ NoteSourceWrite
  /\ UNCHANGED <<users, pnl_client_accounts, pnl_client_summary>>
  /\ UNCHANGED <<pc, tx_accounts, tx_summary, temp_candidates, temp_fx_user_map, steps, result>>
  /\ UNCHANGED outsideRefresh

\* a loader writes the pnl_user_summary row of a login without a timestamp
\* (the column is nullable there; pnl_user_summary_mt4live2 declares it NOT NULL)
SourceUpsertUntimed(login, uid) ==
  /\ Quiescent
  /\ clock < MaxClock
  /\ clock' = clock + 1
  /\ pnl_user_summary' =
       {r \in pnl_user_summary : r.login # login}
         \cup {[SourceRow(login, uid, AccountCurrency("MT5", login), clock + 1)
                  EXCEPT !.last_updated = NULL]}
  /\ NoteSourceWrite
  /\ UNCHANGED <<pnl_user_summary_mt4live2, users, pnl_client_accounts, pnl_client_summary>>
  /\ UNCHANGED <<pc, tx_accounts, tx_summary, temp_candidates, temp_fx_user_map, steps, result>>
  /\ UNCHANGED outsideRefresh

\* a source row disappears
SourceDelete(srv, login) ==
  /\ Quiescent
  /\ clock < MaxClock
  /\ clock' = clock + 1
  /\ IF srv = "MT5"
       THEN /\ \E r \in pnl_user_summary : r.login = login
            /\ pnl_user_summary' = {r \in pnl_user_summary : r.login # login}
            /\ UNCHANGED pnl_user_summary_mt4live2
       ELSE /\ \E r \in pnl_user_summary_mt4live2 : r.login = login
            /\ pnl_user_summary_mt4live2' =
                 {r \in pnl_user_summary_mt4live2 : r.login # login}
            /\ UNCHANGED pnl_user_summary
  /\ NoteSourceWrite
  /\ UNCHANGED <<users, pnl_client_accounts, pnl_client_summary>>
  /\ UNCHANGED <<pc, tx_accounts, tx_summary, temp_candidates, temp_fx_user_map, steps, result>>
  /\ UNCHANGED outsideRefresh

\* the values a fxbackoffice.users row takes in the model
UserProfiles ==
  {[zipcode |-> 1, isEnabled |-> 0],
   [zipcode |-> 2, isEnabled |-> 1]}

\* the CRM writes the row of a client
UsersPut(u, prof) ==
  /\ Quiescent
  /\ clock < MaxClock
  /\ clock' = clock + 1
  /\ [id |-> u, zipcode |-> prof.zipcode, isEnabled |-> prof.isEnabled] \notin users
  /\ users' = {x \in users : x.id # u}
                \cup {[id |-> u, zipcode |-> prof.zipcode, isEnabled |-> prof.isEnabled]}
  /\ UNCHANGED <<pnl_user_summary, pnl_user_summary_mt4live2,
                 pnl_client_accounts, pnl_client_summary>>
  /\ UNCHANGED runvars
  /\ UNCHANGED outsideRefresh

\* the CRM drops the row of a client
UsersDelete(u) ==
  /\ Quiescent
  /\ clock < MaxClock
  /\ clock' = clock + 1
  /\ \E x \in users : x.id = u
  /\ users' = {x \in users : x.id # u}
  /\ UNCHANGED <<pnl_user_summary, pnl_user_summary_mt4live2,
                 pnl_client_accounts, pnl_client_summary>>
  /\ UNCHANGED runvars
  /\ UNCHANGED outsideRefresh

\* ---------------------------------------------------------------------------
\* Client PnL refresh: run_client_pnl_incremental_refresh, step by step
\* ---------------------------------------------------------------------------
NoResult == [success |-> FALSE, message |-> "", steps |-> << >>, max_last_updated |-> NULL]

NoDiscard == [at |-> "none", accounts |-> {}, summary |-> {}]

InitRefresh ==
  /\ pnl_user_summary = {}
  /\ pnl_user_summary_mt4live2 = {}
  /\ users = {[id |-> u, zipcode |-> 1, isEnabled |-> 0] : u \in Clients}
  /\ pnl_client_accounts = {}
  /\ pnl_client_summary = {}
  /\ clock = 0
  /\ pc = "idle"
  /\ tx_accounts = {}
  /\ tx_summary = {}
  /\ temp_candidates = {}
  /\ temp_fx_user_map = {}
  /\ steps = << >>
  /\ result = NoResult
  /\ hist = [pre_accounts |-> {}, pre_summary |-> {}, cand |-> {},
             quiet |-> 0, discarded |-> NoDiscard]

InTry == {"candidates", "accounts", "orphans", "mapping", "summary", "stats"}

\* pg = _connect_postgres(); mysql_fx = _connect_mysql_fx(...); step 1 (watermark):
\* the transaction opens on the committed tables
RefreshBegin ==
  /\ pc = "idle"
  /\ pc' = "candidates"
  /\ tx_accounts' = pnl_client_accounts
  /\ tx_summary' = pnl_client_summary
  /\ temp_candidates' = {}
  /\ temp_fx_user_map' = {}
  /\ steps' = <<[name |-> "watermark"]>>
  /\ hist' = [hist EXCEPT !.pre_accounts = pnl_client_accounts,
                          !.pre_summary = pnl_client_summary,
                          !.cand = {}, !.discarded = NoDiscard]
  /\ UNCHANGED <<result, storevars, outsideRefresh>>

\* _get_env raises, or a connect call raises: except-branch with no transaction
RefreshConnectFail ==
  /\ pc = "idle"
  /\ pc' = "done"
  /\ result' = [success |-> FALSE, message |-> "Incremental refresh failed",
                steps |-> << >>, max_last_updated |-> NULL]
  /\ tx_accounts' = pnl_client_accounts
  /\ tx_summary' = pnl_client_summary
  /\ temp_candidates' = {}
  /\ temp_fx_user_map' = {}
  /\ steps' = << >>
  /\ hist' = [hist EXCEPT !.pre_accounts = pnl_client_accounts,
                          !.pre_summary = pnl_client_summary,
                          !.cand = {}, !.discarded = NoDiscard]
  /\ UNCHANGED <<storevars, outsideRefresh>>

\* a successful run extends the quiet period (the successful runs since the
\* last source write, counted up to two)
QuietAfterSuccess == IF hist.quiet >= 1 THEN 2 ELSE 1

\* (mutation) the early return is never taken
NoCandidatesNever(cand_total) == FALSE

\* `if int(cand_total or 0) == 0:`
NoCandidates(cand_total) == cand_total = 0

\* step 2 (candidates), and the early return `if int(cand_total or 0) == 0`
RefreshCandidates ==
  /\ pc = "candidates"
  /\ LET cands == StagedCandidates(tx_summary)
         cnt(reason) == Cardinality({c \in cands : c.reason = reason})
     IN IF NoCandidates(Cardinality(cands))
          THEN /\ pc' = "done"
               /\ result' = [success |-> TRUE,
                             message |-> "No candidates. Nothing to refresh.",
                             steps |-> Append(steps,
                                        [name |-> "candidates", total |-> 0,
                                         missing |-> 0, lag |-> 0]),
                             max_last_updated |-> NULL]
               /\ temp_candidates' = {}
               /\ steps' = << >>
               /\ tx_accounts' = pnl_client_accounts
               /\ tx_summary' = pnl_client_summary
               /\ hist' = [hist EXCEPT !.cand = cands, !.quiet = QuietAfterSuccess]
          ELSE /\ pc' = "accounts"
               /\ temp_candidates' = cands
               /\ steps' = Append(steps,
                             [name |-> "candidates", total |-> Cardinality(cands),
                              missing |-> cnt("missing"), lag |-> cnt("lag")])
               /\ hist' = [hist EXCEPT !.cand = cands]
               /\ UNCHANGED <<result, tx_accounts, tx_summary>>
  /\ UNCHANGED <<temp_fx_user_map, storevars, outsideRefresh>>

\* step 3 (accounts_upsert)
RefreshAccounts ==
  /\ pc = "accounts"
  /\ pc' = "orphans"
  /\ LET rows == Rolled(temp_candidates) IN
     /\ tx_accounts' = UpsertAccounts(tx_accounts, rows)
     /\ steps' = Append(steps, [name |-> "accounts_upsert",
                                affected_rows |-> Cardinality(rows)])
  /\ UNCHANGED <<tx_summary, temp_candidates, temp_fx_user_map, result, hist,
                 storevars, outsideRefresh>>

\* step 4 (delete_orphans)
RefreshOrphans ==
  /\ pc = "orphans"
  /\ pc' = "mapping"
  /\ LET gone == Orphans(tx_accounts, temp_candidates) IN
     /\ tx_accounts' = tx_accounts \ gone
     /\ steps' = Append(steps, [name |-> "delete_orphans",
                                affected_rows |-> Cardinality(gone)])
  /\ UNCHANGED <<tx_summary, temp_candidates, temp_fx_user_map, result, hist,
                 storevars, outsideRefresh>>

\* step 5 (mapping): fetch from MySQL in batches, load temp_fx_user_map,
\* count and list the zipcode changes
RefreshMapping ==
  /\ pc = "mapping"
  /\ pc' = "summary"
  /\ LET client_ids == SortedSeq(CandIds(temp_candidates))
         mapping_rows == FetchMapping(client_ids)
     IN /\ temp_fx_user_map' = mapping_rows
        /\ steps' = Append(steps,
             [name |-> "mapping",
              loaded_mapping |-> Cardinality(mapping_rows),
              zipcode_changes |->
                Cardinality(ZipcodeChanged(temp_candidates, mapping_rows, tx_summary)),
              zipcode_details |->
                ZipcodeDetails(temp_candidates, mapping_rows, tx_summary)])
  /\ UNCHANGED <<tx_accounts, tx_summary, temp_candidates, result, hist,
                 storevars, outsideRefresh>>

\* step 6 (summary_upsert)
RefreshSummary ==
  /\ pc = "summary"
  /\ pc' = "stats"
  /\ LET rows == SummaryRows(tx_accounts, temp_candidates, temp_fx_user_map, tx_summary) IN
     /\ tx_summary' = UpsertSummary(tx_summary, rows)
     /\ steps' = Append(steps, [name |-> "summary_upsert",
                                affected_rows |-> Cardinality(rows)])
  /\ UNCHANGED <<tx_accounts, temp_candidates, temp_fx_user_map, result, hist,
                 storevars, outsideRefresh>>

\* (mutation) the failure path keeps what the transaction wrote
AfterRollbackKeep(committed, working) == working

\* pg.rollback(): the committed table is what it was
AfterRollback(committed, working) == committed

\* step 7 (stats) and pg.commit(): the transaction's tables become the committed
\* ones, the TEMP tables are dropped (ON COMMIT DROP)
RefreshCommit ==
  /\ pc = "stats"
  /\ pc' = "done"
  /\ pnl_client_accounts' = tx_accounts
  /\ pnl_client_summary' = tx_summary
  /\ result' = [success |-> TRUE,
                message |-> "Incremental refresh completed",
                steps |-> Append(steps, [name |-> "stats"]),
                max_last_updated |->
                  SqlMax({a.last_updated :
                            a \in {x \in tx_accounts :
                                     x.client_id \in CandIds(temp_candidates)}})]
  /\ temp_candidates' = {}
  /\ temp_fx_user_map' = {}
  /\ steps' = << >>
  /\ hist' = [hist EXCEPT !.quiet = QuietAfterSuccess]
  /\ UNCHANGED <<tx_accounts, tx_summary>>
  /\ UNCHANGED <<pnl_user_summary, pnl_user_summary_mt4live2, users, clock, outsideRefresh>>

\* any statement of the try block raises: `except Exception` rolls back and
\* returns the failure dict
RefreshFail ==
  /\ pc \in InTry
  /\ pc' = "done"
  /\ pnl_client_accounts' = AfterRollback(pnl_client_accounts, tx_accounts)
  /\ pnl_client_summary' = AfterRollback(pnl_client_summary, tx_summary)
  /\ tx_accounts' = pnl_client_accounts'
  /\ tx_summary' = pnl_client_summary'
  /\ result' = [success |-> FALSE, message |-> "Incremental refresh failed",
                steps |-> << >>, max_last_updated |-> NULL]
  /\ temp_candidates' = {}
  /\ temp_fx_user_map' = {}
  /\ steps' = << >>
  /\ hist' = [hist EXCEPT !.discarded =
                [at |-> pc, accounts |-> tx_accounts, summary |-> tx_summary]]
  /\ UNCHANGED <<pnl_user_summary, pnl_user_summary_mt4live2, users, clock, outsideRefresh>>

\* the invocation has returned: its dict and what it saw are forgotten
RefreshReturn ==
  /\ pc = "done"
  /\ pc' = "idle"
  /\ result' = NoResult
  /\ hist' = [hist EXCEPT !.pre_accounts = {}, !.pre_summary = {}, !.cand = {},
                          !.discarded = NoDiscard]
  /\ UNCHANGED <<tx_accounts, tx_summary, temp_candidates, temp_fx_user_map, steps>>
  /\ UNCHANGED <<storevars, outsideRefresh>>

NextRefresh ==
  \/ \E srv \in Servers, l \in Logins, u \in Clients \cup {NULL} :
       SourceUpsert(srv, l, u)
  \/ \E srv \in Servers, l \in Logins : SourceDelete(srv, l)
  \/ \E u \in Clients, prof \in UserProfiles : UsersPut(u, prof)
  \/ \E u \in Clients : UsersDelete(u)
  \/ RefreshBegin
  \/ RefreshConnectFail
  \/ RefreshCandidates
  \/ RefreshAccounts
  \/ RefreshOrphans
  \/ RefreshMapping
  \/ RefreshSummary
  \/ RefreshCommit
  \/ RefreshFail
  \/ RefreshReturn

\* the refresh over source tables that may hold rows without a timestamp
NextRefreshUntimed ==
  \/ \E srv \in Servers, l \in Logins, u \in Clients \cup {NULL} :
       SourceUpsert(srv, l, u)
  \/ \E l \in Logins, u \in Clients : SourceUpsertUntimed(l, u)
  \/ RefreshBegin
  \/ RefreshCandidates
  \/ RefreshAccounts
  \/ RefreshOrphans
  \/ RefreshMapping
  \/ RefreshSummary
  \/ RefreshCommit
  \/ RefreshReturn

\* ---------------------------------------------------------------------------
\* Source ETL: mt5_incremental_refresh, mt4live2_incremental_refresh
\* (etl_pg_service.py) and PnlEtlService.run_pnl_sync (etl_service.py)
\* ---------------------------------------------------------------------------
NumEtlRuns == 2
MaxDeal == 2

EtlRuns == 1..NumEtlRuns

\* the functions, and the modes run_pnl_sync takes
EtlCalls ==
  {[fn |-> "mt5", mode |-> "incremental"],
   [fn |-> "mt4live2", mode |-> "incremental"],
   [fn |-> "pnl_sync", mode |-> "incremental"],
   [fn |-> "pnl_sync", mode |-> "full"]}

\* the watermark row / summary table a function works on: the dataset name of
\* the two incremental refreshes, the symbol of run_pnl_sync
DatasetOf(f) ==
  CASE f.fn = "mt5" -> "pnl_user_summary"
    [] f.fn = "mt4live2" -> "pnl_user_summary_mt4live2"
    [] f.fn = "pnl_sync" -> "symbol"

Datasets == {DatasetOf(f) : f \in EtlCalls}

\* only the two incremental refreshes take an advisory lock
TakesAdvisoryLock(f) == f.fn \in {"mt5", "mt4live2"}

\* the amount deal i adds to the additive columns: a decimal digit per deal, so
\* that a total shows how often each deal went into it
DealAmount(i) == 10 ^ (i - 1)

\* SUM over the deals of a window
RECURSIVE WindowSum(_)
WindowSum(window) ==
  IF window = {} THEN 0
  ELSE LET i == CHOOSE x \in window : TRUE
       IN DealAmount(i) + WindowSum(window \ {i})

\* (mutation) the window starts at the watermark itself
DealsWindowInclusive(d, since) == {i \in 1..deals[d] : i >= since}

\* WHERE Deal > %s / TICKET > %s
DealsWindow(d, since) == {i \in 1..deals[d] : i > since}

NoTx == [rows |-> 0, op |-> "none", amount |-> 0, wm |-> NULL]

NoEtlResult == [outcome |-> "none", processed_rows |-> 0, new_max_deal_id |-> NULL]

InitEtl ==
  /\ deals = [d \in Datasets |-> 0]
  /\ etl_watermarks = [d \in Datasets |-> NULL]
  /\ closed_totals = [d \in Datasets |-> 0]
  /\ advisory = [d \in Datasets |-> 0]
  /\ epc = [r \in EtlRuns |-> "idle"]
  /\ efn = [r \in EtlRuns |-> [fn |-> "mt5", mode |-> "incremental"]]
  /\ last_deal_id = [r \in EtlRuns |-> 0]
  /\ max_deal_id = [r \in EtlRuns |-> 0]
  /\ etx = [r \in EtlRuns |-> NoTx]
  /\ eresult = [r \in EtlRuns |-> NoEtlResult]
  /\ ehist = [r \in EtlRuns |-> [totals |-> 0, wm |-> NULL, discarded |-> NoTx]]

\* the deals recorded so far, over all datasets
RECURSIVE DealsRecorded(_)
DealsRecorded(ds) ==
  IF ds = {} THEN 0
  ELSE LET d == CHOOSE x \in ds : TRUE
       IN deals[d] + DealsRecorded(ds \ {d})

\* the trading server records a new deal / ticket
NewDeal(d) ==
  /\ DealsRecorded(Datasets) < MaxDeal
  /\ deals' = [deals EXCEPT ![d] = @ + 1]
  /\ UNCHANGED <<etl_watermarks, closed_totals, advisory, epc, efn,
                 last_deal_id, max_deal_id, etx, eresult, ehist>>
  /\ UNCHANGED outsideEtl

\* the env validation raises (RuntimeError), or the connections cannot be
\* opened: the function raises before it has a transaction
EtlStartFail(r, f) ==
  /\ epc[r] = "idle"
  /\ epc' = [epc EXCEPT ![r] = "done"]
  /\ efn' = [efn EXCEPT ![r] = f]
  /\ eresult' = [eresult EXCEPT ![r] = [NoEtlResult EXCEPT !.outcome = "raised"]]
  /\ ehist' = [ehist EXCEPT ![r] = [totals |-> closed_totals[DatasetOf(f)],
                                    wm |-> etl_watermarks[DatasetOf(f)],
                                    discarded |-> NoTx]]
  /\ etx' = [etx EXCEPT ![r] = NoTx]
  /\ UNCHANGED <<deals, etl_watermarks, closed_totals, advisory, last_deal_id, max_deal_id>>
  /\ UNCHANGED outsideEtl

\* connect; SELECT pg_try_advisory_lock(key); `if not locked: return result`
EtlStart(r, f) ==
  /\ epc[r] = "idle"
  /\ efn' = [efn EXCEPT ![r] = f]
  /\ ehist' = [ehist EXCEPT ![r] = [totals |-> closed_totals[DatasetOf(f)],
                                    wm |-> etl_watermarks[DatasetOf(f)],
                                    discarded |-> NoTx]]
  /\ etx' = [etx EXCEPT ![r] = NoTx]
  /\ last_deal_id' = [last_deal_id EXCEPT ![r] = 0]
  /\ max_deal_id' = [max_deal_id EXCEPT ![r] = 0]
  /\ IF TakesAdvisoryLock(f) /\ advisory[DatasetOf(f)] # 0
       THEN /\ epc' = [epc EXCEPT ![r] = "done"]
            /\ eresult' = [eresult EXCEPT ![r] =
                             [NoEtlResult EXCEPT !.outcome = "in_progress"]]
            /\ UNCHANGED advisory
       ELSE /\ epc' = [epc EXCEPT ![r] = "read"]
            /\ eresult' = [eresult EXCEPT ![r] = NoEtlResult]
            /\ advisory' = IF TakesAdvisoryLock(f)
                             THEN [advisory EXCEPT ![DatasetOf(f)] = r]
                             ELSE advisory
  /\ UNCHANGED <<deals, etl_watermarks, closed_totals>>
  /\ UNCHANGED outsideEtl

\* read last_deal_id. The incremental refreshes insert the row with 0 when
\* there is none and commit that; run_pnl_sync reads only (`result[0] if result
\* else 0`), and in full mode starts from 0 without reading
EtlReadWatermark(r) ==
  /\ epc[r] = "read"
  /\ epc' = [epc EXCEPT ![r] = "extract"]
  /\ LET d == DatasetOf(efn[r])
         stored == etl_watermarks[d]
     IN /\ last_deal_id' = [last_deal_id EXCEPT ![r] =
              IF efn[r].mode = "full" \/ stored = NULL THEN 0 ELSE stored]
        /\ etl_watermarks' =
              IF TakesAdvisoryLock(efn[r]) /\ stored = NULL
                THEN [etl_watermarks EXCEPT ![d] = 0]
                ELSE etl_watermarks
  /\ UNCHANGED <<deals, closed_totals, advisory, efn, max_deal_id, etx, eresult, ehist>>
  /\ UNCHANGED outsideEtl

\* (mutation) the running maximum starts from 0 instead of the watermark read
InitialMaxDealIdZero(last) == 0

\* `max_deal_id = last_deal_id` / `window_max = since_ticket` /
\* `... else last_deal_id`
InitialMaxDealId(last) == last

\* max(max_deal_id, <highest id of the window>)
MaxDealId(last, window) ==
  LET start == InitialMaxDealId(last)
      top == IF window = {} THEN start
             ELSE CHOOSE i \in window : \A j \in window : i >= j
  IN IF top > start THEN top ELSE start

\* step 1: aggregate the deals after the watermark (MySQL); run_pnl_sync
\* returns success at once when nothing was fetched
EtlExtract(r) ==
  /\ epc[r] = "extract"
  /\ LET d == DatasetOf(efn[r])
         window == DealsWindow(d, last_deal_id[r])
     IN /\ max_deal_id' = [max_deal_id EXCEPT ![r] = MaxDealId(last_deal_id[r], window)]
        /\ etx' = [etx EXCEPT ![r].rows = WindowSum(window)]
        /\ IF efn[r].fn = "pnl_sync" /\ window = {}
             THEN /\ epc' = [epc EXCEPT ![r] = "done"]
                  /\ eresult' = [eresult EXCEPT ![r] =
                       [outcome |-> "success", processed_rows |-> 0,
                        new_max_deal_id |-> last_deal_id[r]]]
             ELSE /\ epc' = [epc EXCEPT ![r] = "load"]
                  /\ UNCHANGED eresult
  /\ UNCHANGED <<deals, etl_watermarks, closed_totals, advisory, efn, last_deal_id, ehist>>
  /\ UNCHANGED outsideEtl

\* a row another open transaction has written is locked until that
\* transaction ends
RowsFree(r) ==
  \A o \in EtlRuns \ {r} :
    (DatasetOf(efn[o]) = DatasetOf(efn[r]) /\ epc[o] \in {"load", "watermark", "commit"})
      => (etx[o].op = "none" /\ etx[o].wm = NULL)

\* the upsert into the summary table: <column> = <table>.<column> + EXCLUDED.<column>;
\* run_pnl_sync in full mode first deletes the symbol's rows
EtlLoad(r) ==
  /\ epc[r] = "load"
  /\ RowsFree(r)
  /\ epc' = [epc EXCEPT ![r] = "watermark"]
  /\ etx' = [etx EXCEPT ![r] =
       IF efn[r].mode = "full"
         THEN [@ EXCEPT !.op = "replace", !.amount = etx[r].rows]
       ELSE IF etx[r].rows # 0
         THEN [@ EXCEPT !.op = "add", !.amount = etx[r].rows]
       ELSE @]
  /\ UNCHANGED <<deals, etl_watermarks, closed_totals, advisory, efn,
                 last_deal_id, max_deal_id, eresult, ehist>>
  /\ UNCHANGED outsideEtl

\* step 3: the watermark upsert (last_deal_id = EXCLUDED.last_deal_id);
\* run_pnl_sync writes it only `if new_max_deal_id > last_deal_id`
EtlWriteWatermark(r) ==
  /\ epc[r] = "watermark"
  /\ RowsFree(r)
  /\ epc' = [epc EXCEPT ![r] = "commit"]
  /\ etx' = [etx EXCEPT ![r].wm =
       IF efn[r].fn = "pnl_sync" /\ ~(max_deal_id[r] > last_deal_id[r])
         THEN NULL ELSE max_deal_id[r]]
  /\ UNCHANGED <<deals, etl_watermarks, closed_totals, advisory, efn,
                 last_deal_id, max_deal_id, eresult, ehist>>
  /\ UNCHANGED outsideEtl

\* the summary table's additive total once a transaction's write is applied
AppliedTotals(total, tx) ==
  CASE tx.op = "add" -> total + tx.amount
    [] tx.op = "replace" -> tx.amount
    [] OTHER -> total

\* the watermark once a transaction's write is applied
AppliedWatermark(wm, tx) == IF tx.wm = NULL THEN wm ELSE tx.wm

\* (mutation) the finally block does not unlock
AfterTransactionNoUnlock(f) == "done"

\* where a function goes when its transaction has ended: the incremental
\* refreshes release the advisory lock in `finally`
AfterTransaction(f) == IF TakesAdvisoryLock(f) THEN "unlock" ELSE "done"

\* pg_conn.commit(): the upsert and the watermark write take effect together
EtlCommit(r) ==
  /\ epc[r] = "commit"
  /\ LET d == DatasetOf(efn[r]) IN
     /\ closed_totals' = [closed_totals EXCEPT ![d] = AppliedTotals(@, etx[r])]
     /\ etl_watermarks' = [etl_watermarks EXCEPT ![d] = AppliedWatermark(@, etx[r])]
  /\ eresult' = [eresult EXCEPT ![r] =
       [outcome |-> "success",
        processed_rows |-> IF etx[r].rows # 0 THEN 1 ELSE 0,
        new_max_deal_id |-> max_deal_id[r]]]
  /\ etx' = [etx EXCEPT ![r] = NoTx]
  /\ epc' = [epc EXCEPT ![r] = AfterTransaction(efn[r])]
  /\ UNCHANGED <<deals, advisory, efn, last_deal_id, max_deal_id, ehist>>
  /\ UNCHANGED outsideEtl

\* (mutation) the failure path keeps what the transaction wrote to the
\* summary table
EtlRolledBackTotalsKept(total, tx) == AppliedTotals(total, tx)

\* pg_conn.rollback(): the summary table is what it was
EtlRolledBackTotals(total, tx) == total

\* pg_conn.rollback(): the watermark is what it was
EtlRolledBackWatermark(wm, tx) == wm

\* a statement after the lock was taken raises: `except Exception:
\* pg_conn.rollback()`, then the incremental refreshes re-raise and
\* run_pnl_sync returns EtlResult(success=False)
EtlFail(r) ==
  /\ epc[r] \in {"read", "extract", "load", "watermark", "commit"}
  /\ LET d == DatasetOf(efn[r]) IN
     /\ closed_totals' = [closed_totals EXCEPT ![d] = EtlRolledBackTotals(@, etx[r])]
     /\ etl_watermarks' = [etl_watermarks EXCEPT ![d] = EtlRolledBackWatermark(@, etx[r])]
  /\ eresult' = [eresult EXCEPT ![r] =
       [outcome |-> IF efn[r].fn = "pnl_sync" THEN "failure" ELSE "raised",
        processed_rows |-> 0,
        new_max_deal_id |-> IF efn[r].fn = "pnl_sync" THEN last_deal_id[r] ELSE NULL]]
  /\ etx' = [etx EXCEPT ![r] = NoTx]
  /\ ehist' = [ehist EXCEPT ![r].discarded = etx[r]]
  /\ epc' = [epc EXCEPT ![r] = AfterTransaction(efn[r])]
  /\ UNCHANGED <<deals, advisory, efn, last_deal_id, max_deal_id>>
  /\ UNCHANGED outsideEtl

\* finally: SELECT pg_advisory_unlock(key); commit
EtlUnlock(r) ==
  /\ epc[r] = "unlock"
  /\ epc' = [epc EXCEPT ![r] = "done"]
  /\ advisory' = [advisory EXCEPT ![DatasetOf(efn[r])] = 0]
  /\ UNCHANGED <<deals, etl_watermarks, closed_totals, efn, last_deal_id,
                 max_deal_id, etx, eresult, ehist>>
  /\ UNCHANGED outsideEtl

\* the function has returned (or raised): its locals are forgotten
EtlReturn(r) ==
  /\ epc[r] = "done"
  /\ epc' = [epc EXCEPT ![r] = "idle"]
  /\ eresult' = [eresult EXCEPT ![r] = NoEtlResult]
  /\ last_deal_id' = [last_deal_id EXCEPT ![r] = 0]
  /\ max_deal_id' = [max_deal_id EXCEPT ![r] = 0]
  /\ etx' = [etx EXCEPT ![r] = NoTx]
  /\ ehist' = [ehist EXCEPT ![r] = [totals |-> 0, wm |-> NULL, discarded |-> NoTx]]
  /\ efn' = [efn EXCEPT ![r] = [fn |-> "mt5", mode |-> "incremental"]]
  /\ UNCHANGED <<deals, etl_watermarks, closed_totals, advisory>>
  /\ UNCHANGED outsideEtl

NextEtl ==
  \/ \E d \in Datasets : NewDeal(d)
  \/ \E r \in EtlRuns, f \in EtlCalls : EtlStartFail(r, f)
  \/ \E r \in EtlRuns, f \in EtlCalls : EtlStart(r, f)
  \/ \E r \in EtlRuns : EtlReadWatermark(r)
  \/ \E r \in EtlRuns : EtlExtract(r)
  \/ \E r \in EtlRuns : EtlLoad(r)
  \/ \E r \in EtlRuns : EtlWriteWatermark(r)
  \/ \E r \in EtlRuns : EtlCommit(r)
  \/ \E r \in EtlRuns : EtlFail(r)
  \/ \E r \in EtlRuns : EtlUnlock(r)
  \/ \E r \in EtlRuns : EtlReturn(r)

\* ---------------------------------------------------------------------------
\* Client PnL refresh: configuration and connections
\* (_get_env, _connect_postgres, _connect_mysql_fx, the try / except / finally)
\* ---------------------------------------------------------------------------

\* the settings _connect_postgres reads without a default, in reading order
PostgresSettings == <<"POSTGRES_HOST", "POSTGRES_USER", "POSTGRES_PASSWORD">>

\* the settings _connect_mysql_fx reads without a default, in reading order
MysqlSettings == <<"MYSQL_HOST", "MYSQL_USER", "MYSQL_PASSWORD">>

RequiredSettings ==
  {PostgresSettings[i] : i \in 1..Len(PostgresSettings)}
    \cup {MysqlSettings[i] : i \in 1..Len(MysqlSettings)}

\* _get_env over a list of settings: the first one that is missing, "" if none
RECURSIVE FirstMissing(_)
FirstMissing(names) ==
  IF names = << >> THEN ""
  ELSE IF Head(names) \notin environ THEN Head(names)
  ELSE FirstMissing(Tail(names))

NoConnResult == [success |-> FALSE, message |-> [kind |-> "none", name |-> "none"]]

NoConnHist == [at_error |-> {}, attempts |-> 0]

InitConnect ==
  /\ environ = RequiredSettings
  /\ cpc = "idle"
  /\ pg = "none"
  /\ mysql_fx = "none"
  /\ cresult = NoConnResult
  /\ chist = NoConnHist

\* the deployment's environment changes between invocations
SetEnv(name) ==
  /\ cpc = "idle"
  /\ environ' = IF name \in environ THEN environ \ {name} ELSE environ \cup {name}
  /\ UNCHANGED <<cpc, pg, mysql_fx, cresult, chist>>
  /\ UNCHANGED outsideConnect

\* run_client_pnl_incremental_refresh is called: pg = None; mysql_fx = None
ConnBegin ==
  /\ cpc = "idle"
  /\ cpc' = "pg_env"
  /\ pg' = "none"
  /\ mysql_fx' = "none"
  /\ cresult' = NoConnResult
  /\ chist' = [NoConnHist EXCEPT !.attempts = 1]
  /\ UNCHANGED environ
  /\ UNCHANGED outsideConnect

\* the failure dict of the except branch
Failure(e) == [success |-> FALSE, message |-> e]

\* _get_env raises RuntimeError("Missing required environment variable: ...")
MissingVariable(name) == [kind |-> "missing", name |-> name]

\* a driver's connect call raises
ConnectError(store) == [kind |-> "connect", name |-> store]

\* the connections that are open
OpenConnections ==
  {s \in {"postgres", "mysql"} :
     (s = "postgres" /\ pg = "open") \/ (s = "mysql" /\ mysql_fx = "open")}

\* _connect_postgres: the _get_env calls
ConnPostgresEnv ==
  /\ cpc = "pg_env"
  /\ LET missing == FirstMissing(PostgresSettings) IN
     IF missing # ""
       THEN /\ cpc' = "except"
            /\ cresult' = Failure(MissingVariable(missing))
            /\ chist' = [chist EXCEPT !.at_error = OpenConnections]
       ELSE /\ cpc' = "pg_connect"
            /\ UNCHANGED <<cresult, chist>>
  /\ UNCHANGED <<environ, pg, mysql_fx>>
  /\ UNCHANGED outsideConnect

\* _connect_postgres: psycopg2.connect(...) returns a connection, or raises
ConnPostgresConnect ==
  /\ cpc = "pg_connect"
  /\ \/ /\ pg' = "open"
        /\ cpc' = "mysql_env"
        /\ UNCHANGED <<cresult, chist>>
     \/ /\ cpc' = "except"
        /\ cresult' = Failure(ConnectError("postgres"))
        /\ UNCHANGED <<pg, chist>>
  /\ UNCHANGED <<environ, mysql_fx>>
  /\ UNCHANGED outsideConnect

\* _connect_mysql_fx: the _get_env calls
ConnMysqlEnv ==
  /\ cpc = "mysql_env"
  /\ LET missing == FirstMissing(MysqlSettings) IN
     IF missing # ""
       THEN /\ cpc' = "except"
            /\ cresult' = Failure(MissingVariable(missing))
            /\ chist' = [chist EXCEPT !.at_error = OpenConnections]
       ELSE /\ cpc' = "mysql_connect"
            /\ UNCHANGED <<cresult, chist>>
  /\ UNCHANGED <<environ, pg, mysql_fx>>
  /\ UNCHANGED outsideConnect

\* _connect_mysql_fx: pymysql.connect(...) returns a connection, or raises
ConnMysqlConnect ==
  /\ cpc = "mysql_connect"
  /\ \/ /\ mysql_fx' = "open"
        /\ cpc' = "steps"
        /\ UNCHANGED <<cresult, chist>>
     \/ /\ cpc' = "except"
        /\ cresult' = Failure(ConnectError("mysql"))
        /\ UNCHANGED <<mysql_fx, chist>>
  /\ UNCHANGED <<environ, pg>>
  /\ UNCHANGED outsideConnect

\* steps 1 to 7 of the try block run to pg.commit(), or one of them raises
ConnSteps ==
  /\ cpc = "steps"
  /\ \/ /\ cpc' = "finally"
        /\ cresult' = [success |-> TRUE,
                        message |-> [kind |-> "completed", name |-> "none"]]
     \/ /\ cpc' = "except"
        /\ cresult' = Failure([kind |-> "statement", name |-> "postgres"])
  /\ UNCHANGED <<environ, pg, mysql_fx, chist>>
  /\ UNCHANGED outsideConnect

\* except Exception: `if pg is not None: pg.rollback()`, the failure dict is the
\* return value; nothing calls the connect functions again
ConnExcept ==
  /\ cpc = "except"
  /\ cpc' = "finally"
  /\ UNCHANGED <<environ, pg, mysql_fx, cresult, chist>>
  /\ UNCHANGED outsideConnect

\* finally: mysql_fx.close() and pg.close() for the connections that exist
ConnFinally ==
  /\ cpc = "finally"
  /\ cpc' = "done"
  /\ mysql_fx' = IF mysql_fx = "none" THEN "none" ELSE "closed"
  /\ pg' = IF pg = "none" THEN "none" ELSE "closed"
  /\ UNCHANGED <<environ, cresult, chist>>
  /\ UNCHANGED outsideConnect

\* the dict has been delivered to the caller
ConnReturn ==
  /\ cpc = "done"
  /\ cpc' = "idle"
  /\ UNCHANGED <<environ, pg, mysql_fx, cresult, chist>>
  /\ UNCHANGED outsideConnect

NextConnect ==
  \/ \E name \in RequiredSettings : SetEnv(name)
  \/ ConnBegin
  \/ ConnPostgresEnv
  \/ ConnPostgresConnect
  \/ ConnMysqlEnv
  \/ ConnMysqlConnect
  \/ ConnSteps
  \/ ConnExcept
  \/ ConnFinally
  \/ ConnReturn

\* ---------------------------------------------------------------------------
\* Client PnL refresh: two invocations at the same time
\* Each invocation has its own connection, transaction (READ COMMITTED) and
\* TEMP tables. A statement sees the committed rows and the rows its own
\* transaction wrote; a row written by a transaction stays locked until that
\* transaction ends, and a statement that has to write a locked row waits.
\* ---------------------------------------------------------------------------
OverlapRuns == {1, 2}

Other(i) == 3 - i

NoWrites == [acc_keys |-> {}, acc_rows |-> {}, sum_keys |-> {}, sum_rows |-> {}]

NoOverlapHist ==
  [expect_accounts |-> {}, expect_summary |-> {}, overlapped |-> FALSE,
   succeeded |-> 0, wrote |-> 0, both_wrote |-> FALSE]

\* the history once the overlap is over: whether an invocation succeeded, and
\* whether two overlapping invocations both committed rows
Settled(h) ==
  [NoOverlapHist EXCEPT !.succeeded = IF h.succeeded >= 1 THEN 1 ELSE 0,
                        !.both_wrote = h.overlapped /\ h.wrote = 2]

\* the history after invocation i has ended
AfterEnd(i, h) == IF opc[Other(i)] = "idle" THEN Settled(h) ELSE h

InitOverlap ==
  /\ opc = [i \in OverlapRuns |-> "idle"]
  /\ ocand = [i \in OverlapRuns |-> {}]
  /\ omap = [i \in OverlapRuns |-> {}]
  /\ otx = [i \in OverlapRuns |-> NoWrites]
  /\ ohist = NoOverlapHist

\* pnl_client_accounts as a statement of invocation i sees it
ViewAccounts(i) ==
  {a \in pnl_client_accounts : AccountKey(a) \notin otx[i].acc_keys}
    \cup otx[i].acc_rows

\* pnl_client_summary as a statement of invocation i sees it
ViewSummary(i) ==
  {cs \in pnl_client_summary : cs.client_id \notin otx[i].sum_keys}
    \cup otx[i].sum_rows

\* the tables one refresh, running alone, leaves behind
AloneAccounts(accounts, summary) ==
  LET cands == StagedCandidates(summary)
      upserted == UpsertAccounts(accounts, Rolled(cands))
  IN IF NoCandidates(Cardinality(cands)) THEN accounts
     ELSE upserted \ Orphans(upserted, cands)

AloneSummary(accounts, summary) ==
  LET cands == StagedCandidates(summary)
      map == FetchMapping(SortedSeq(CandIds(cands)))
  IN IF NoCandidates(Cardinality(cands)) THEN summary
     ELSE UpsertSummary(summary,
            SummaryRows(AloneAccounts(accounts, summary), cands, map, summary))

NoneRunning == \A i \in OverlapRuns : opc[i] = "idle"

\* the source ETL writes while no refresh is running
QuietSourceUpsert(srv, login, uid) == NoneRunning /\ SourceUpsert(srv, login, uid)

QuietSourceDelete(srv, login) == NoneRunning /\ SourceDelete(srv, login)

\* an invocation starts: the first on idle tables, the second, once, while the
\* first is running; connections, step 1 (watermark), CREATE TEMP TABLE
OverlapBegin(i) ==
  /\ pc = "idle"
  /\ opc[i] = "idle"
  /\ IF i = 1
       THEN /\ opc[Other(i)] = "idle"
            /\ ohist' = [NoOverlapHist EXCEPT
                 !.expect_accounts = AloneAccounts(pnl_client_accounts, pnl_client_summary),
                 !.expect_summary = AloneSummary(pnl_client_accounts, pnl_client_summary)]
       ELSE /\ opc[Other(i)] # "idle"
            /\ ~ohist.overlapped
            /\ ohist' = [ohist EXCEPT !.overlapped = TRUE]
  /\ opc' = [opc EXCEPT ![i] = "missing"]
  /\ ocand' = [ocand EXCEPT ![i] = {}]
  /\ omap' = [omap EXCEPT ![i] = {}]
  /\ otx' = [otx EXCEPT ![i] = NoWrites]
  /\ UNCHANGED <<storevars, outsideOverlap>>

\* step 2, first INSERT: the 'missing' candidates
OverlapMissing(i) ==
  /\ opc[i] = "missing"
  /\ opc' = [opc EXCEPT ![i] = "lag"]
  /\ ocand' = [ocand EXCEPT ![i] =
       InsertCandidates({}, {u \in SourceUserIds : IsMissing(ViewSummary(i), u)},
                        "missing")]
  /\ UNCHANGED <<omap, otx, ohist, storevars, outsideOverlap>>

\* step 2, second INSERT: the 'lag' candidates; the count and the early return
OverlapLag(i) ==
  /\ opc[i] = "lag"
  /\ LET cands == InsertCandidates(ocand[i],
                    {u \in SourceUserIds : IsLagging(ViewSummary(i), u)}, "lag")
     IN IF NoCandidates(Cardinality(cands))
          THEN /\ opc' = [opc EXCEPT ![i] = "idle"]
               /\ ocand' = [ocand EXCEPT ![i] = {}]
               /\ ohist' = AfterEnd(i, [ohist EXCEPT !.succeeded = @ + 1])
          ELSE /\ opc' = [opc EXCEPT ![i] = "accounts"]
               /\ ocand' = [ocand EXCEPT ![i] = cands]
               /\ UNCHANGED ohist
  /\ UNCHANGED <<omap, otx, storevars, outsideOverlap>>

\* the rows of pnl_client_accounts the other invocation holds locked
LockedAccounts(i) == otx[Other(i)].acc_keys

\* the rows of pnl_client_summary the other invocation holds locked
LockedSummary(i) == otx[Other(i)].sum_keys

\* step 3 (accounts_upsert): waits while a row it writes is locked
OverlapAccounts(i) ==
  /\ opc[i] = "accounts"
  /\ LET rows == Rolled(ocand[i])
         keys == {AccountKey(r) : r \in rows}
         after == UpsertAccounts(ViewAccounts(i), rows)
     IN /\ keys \cap LockedAccounts(i) = {}
        /\ otx' = [otx EXCEPT ![i].acc_keys = @ \cup keys,
                              ![i].acc_rows =
                                 {a \in after : AccountKey(a) \in otx[i].acc_keys \cup keys}]
  /\ opc' = [opc EXCEPT ![i] = "orphans"]
  /\ UNCHANGED <<ocand, omap, ohist, storevars, outsideOverlap>>

\* step 4 (delete_orphans): waits while a row it deletes is locked
OverlapOrphans(i) ==
  /\ opc[i] = "orphans"
  /\ LET gone == Orphans(ViewAccounts(i), ocand[i])
         keys == {AccountKey(a) : a \in gone}
     IN /\ keys \cap LockedAccounts(i) = {}
        /\ otx' = [otx EXCEPT ![i].acc_keys = @ \cup keys,
                              ![i].acc_rows = @ \ gone]
  /\ opc' = [opc EXCEPT ![i] = "mapping"]
  /\ UNCHANGED <<ocand, omap, ohist, storevars, outsideOverlap>>

\* step 5 (mapping)
OverlapMapping(i) ==
  /\ opc[i] = "mapping"
  /\ opc' = [opc EXCEPT ![i] = "summary"]
  /\ omap' = [omap EXCEPT ![i] = FetchMapping(SortedSeq(CandIds(ocand[i])))]
  /\ UNCHANGED <<ocand, otx, ohist, storevars, outsideOverlap>>

\* step 6 (summary_upsert): waits while a row it writes is locked
OverlapSummary(i) ==
  /\ opc[i] = "summary"
  /\ LET rows == SummaryRows(ViewAccounts(i), ocand[i], omap[i], ViewSummary(i))
         keys == {r.client_id : r \in rows}
         after == UpsertSummary(ViewSummary(i), rows)
     IN /\ keys \cap LockedSummary(i) = {}
        /\ otx' = [otx EXCEPT ![i].sum_keys = @ \cup keys,
                              ![i].sum_rows =
                                 {cs \in after : cs.client_id \in otx[i].sum_keys \cup keys}]
  /\ opc' = [opc EXCEPT ![i] = "stats"]
  /\ UNCHANGED <<ocand, omap, ohist, storevars, outsideOverlap>>

\* step 7 (stats) and pg.commit(): the invocation's rows become the committed
\* ones, its locks are released, its TEMP tables are dropped
OverlapCommit(i) ==
  /\ opc[i] = "stats"
  /\ opc' = [opc EXCEPT ![i] = "idle"]
  /\ pnl_client_accounts' = ViewAccounts(i)
  /\ pnl_client_summary' = ViewSummary(i)
  /\ otx' = [otx EXCEPT ![i] = NoWrites]
  /\ ocand' = [ocand EXCEPT ![i] = {}]
  /\ omap' = [omap EXCEPT ![i] = {}]
  /\ ohist' = AfterEnd(i, [ohist EXCEPT !.succeeded = @ + 1, !.wrote = @ + 1])
  /\ UNCHANGED <<pnl_user_summary, pnl_user_summary_mt4live2, users, clock>>
  /\ UNCHANGED outsideOverlap

\* a statement raises (the server breaks a deadlock between the two upserts by
\* aborting one of them, a connection drops): `except Exception` rolls back
OverlapFail(i) ==
  /\ opc[i] \in {"accounts", "orphans", "mapping", "summary", "stats"}
  /\ opc' = [opc EXCEPT ![i] = "idle"]
  /\ otx' = [otx EXCEPT ![i] = NoWrites]
  /\ ocand' = [ocand EXCEPT ![i] = {}]
  /\ omap' = [omap EXCEPT ![i] = {}]
  /\ ohist' = AfterEnd(i, ohist)
  /\ UNCHANGED <<storevars, outsideOverlap>>

NextOverlap ==
  \/ \E srv \in Servers, l \in Logins, u \in Clients \cup {NULL} :
       QuietSourceUpsert(srv, l, u)
  \/ \E srv \in Servers, l \in Logins : QuietSourceDelete(srv, l)
  \/ \E i \in OverlapRuns : OverlapBegin(i)
  \/ \E i \in OverlapRuns : OverlapMissing(i)
  \/ \E i \in OverlapRuns : OverlapLag(i)
  \/ \E i \in OverlapRuns : OverlapAccounts(i)
  \/ \E i \in OverlapRuns : OverlapOrphans(i)
  \/ \E i \in OverlapRuns : OverlapMapping(i)
  \/ \E i \in OverlapRuns : OverlapSummary(i)
  \/ \E i \in OverlapRuns : OverlapCommit(i)
  \/ \E i \in OverlapRuns : OverlapFail(i)

\* ---------------------------------------------------------------------------
\* Client PnL refresh: the zipcode report of the mapping step on a large run
\* (more candidates than the report's LIMIT)
\* ---------------------------------------------------------------------------
MaxReportCands == 103

\* the candidates of the run: clients 1..MaxReportCands
ReportCandidates == {[client_id |-> i, reason |-> "lag"] : i \in 1..MaxReportCands}

\* temp_fx_user_map: clients 1..k are mapped to zipcode 2; of the others, the
\* even ones have a mapping row without zipcode and the odd ones have no row
ReportMapping(k) ==
  {[client_id |-> i, zipcode |-> 2, is_enabled |-> 1] : i \in 1..k}
    \cup {[client_id |-> i, zipcode |-> NULL, is_enabled |-> 1] :
            i \in {x \in (k + 1)..MaxReportCands : x % 2 = 0}}

\* pnl_client_summary before the run: clients 1..j hold zipcode 2; of the
\* others, the even ones hold zipcode 1 and the odd ones have no summary row
ReportSummary(j) ==
  {[client_id |-> i, zipcode |-> 2] : i \in 1..j}
    \cup {[client_id |-> i, zipcode |-> 1] :
            i \in {x \in (j + 1)..MaxReportCands : x % 2 = 0}}

NoReport == [k |-> 0, j |-> 0, zipcode_changes |-> 0, zipcode_details |-> << >>]

InitReport == zreport = NoReport

\* step 5 (mapping), its two report queries
ZipcodeReport(k, j) ==
  /\ j <= k
  /\ zreport' =
       [k |-> k, j |-> j,
        zipcode_changes |->
          Cardinality(ZipcodeChanged(ReportCandidates, ReportMapping(k), ReportSummary(j))),
        zipcode_details |->
          ZipcodeDetails(ReportCandidates, ReportMapping(k), ReportSummary(j))]
  /\ UNCHANGED outsideReport

NextReport == \E k \in 0..MaxReportCands, j \in {0, 2} : ZipcodeReport(k, j)

\* ---------------------------------------------------------------------------
\* Read path: get_pnl_analysis behind the Redis cache and the coalescer
\* ---------------------------------------------------------------------------

\* the requests of the model carry the same dates and search term
CacheKey == 1

\* the result of a query that matched no row: {"data": [], "statistics": ...}
EmptyResult == -2

NoReadHist ==
  [rows |-> 0, stored |-> None, late |-> {}, hits |-> 0,
   route |-> [t \in Threads |-> "none"]]

InitRead ==
  /\ redis = None
  /\ ch_queries = 0
  /\ ppc = [t \in Threads |-> "start"]
  /\ result_dict = [t \in Threads |-> None]
  /\ rhist = NoReadHist

\* step 2, `cached_data = self.redis_client.get(cache_key)` finds the entry:
\* the request returns it
ReadHit(t) ==
  /\ sfpc[t] = "idle"
  /\ redis # None
  /\ rhist.hits < MaxDoCalls
  /\ rhist' = [rhist EXCEPT !.hits = @ + 1, !.route[t] = "hit"]
  /\ UNCHANGED <<redis, ch_queries, ppc, result_dict>>
  /\ UNCHANGED sfvars
  /\ UNCHANGED outsideRead

\* step 2 finds no entry: the request goes on to
\* `self._singleflight.do(cache_key, _execute_pnl_query)`
ReadMiss(t) ==
  /\ redis = None
  /\ DoEnter(t, CacheKey)

\* `call.result = fn()` with fn = _execute_pnl_query returning value v
ProducerReturns(t, v) ==
  LET c == sfcall[t] IN
  /\ fnLog' = [fnLog EXCEPT ![c] = Append(@, [kind |-> "value", val |-> v])]
  /\ fnBy' = [fnBy EXCEPT ![c] = @ \cup {t}]
  /\ callObj' = [callObj EXCEPT ![c].result = v]
  /\ sfpc' = [sfpc EXCEPT ![t] = "set"]
  /\ ppc' = [ppc EXCEPT ![t] = "start"]
  /\ result_dict' = [result_dict EXCEPT ![t] = None]
  /\ UNCHANGED <<mu, registry, sfkey, sfcall, sfowner, returned, started, sfhist>>

\* (mutation) the producer does not look at the cache again
RecheckSkipped(entry) == None

\* the producer's `cached_data = self.redis_client.get(cache_key)`
Recheck(entry) == entry

\* _execute_pnl_query, first part: the cache re-check inside the coalescer
ProducerRecheck(t) ==
  /\ sfpc[t] = "run"
  /\ ppc[t] = "start"
  /\ IF Recheck(redis) # None
       THEN /\ ProducerReturns(t, Recheck(redis))
            /\ rhist' = [rhist EXCEPT !.route[t] = "recheck"]
       ELSE /\ ppc' = [ppc EXCEPT ![t] = "query"]
            /\ rhist' = [rhist EXCEPT !.route[t] = "query"]
            /\ UNCHANGED <<result_dict, sfvars>>
  /\ UNCHANGED <<redis, ch_queries, fnTotal>>
  /\ UNCHANGED outsideRead

\* _execute_pnl_query, second part: `client.query(sql, ...)`. The query
\* returns rows (every query yields a result no other query yields), returns
\* no row (`if not data: return {...}`, nothing is cached), or raises
ProducerQuery(t, outcome) ==
  /\ sfpc[t] = "run"
  /\ ppc[t] = "query"
  /\ ch_queries' = ch_queries + 1
  /\ fnTotal' = fnTotal + 1
  /\ CASE outcome = "rows" ->
            /\ ppc' = [ppc EXCEPT ![t] = "store"]
            /\ result_dict' = [result_dict EXCEPT ![t] = fnTotal + 1]
            /\ rhist' = [rhist EXCEPT !.rows = @ + 1]
            /\ UNCHANGED <<mu, registry, callObj, sfpc, sfkey, sfcall, sfowner,
                           fnLog, fnBy, returned, started, sfhist>>
       [] outcome = "empty" ->
            /\ ProducerReturns(t, EmptyResult)
            /\ rhist' = [rhist EXCEPT !.route[t] = "empty"]
       [] outcome = "raise" ->
            LET c == sfcall[t] IN
            /\ fnLog' = [fnLog EXCEPT ![c] = Append(@, [kind |-> "error", val |-> fnTotal + 1])]
            /\ fnBy' = [fnBy EXCEPT ![c] = @ \cup {t}]
            /\ callObj' = [callObj EXCEPT ![c].error = CapturedError(fnTotal + 1)]
            /\ sfpc' = [sfpc EXCEPT ![t] = "set"]
            /\ ppc' = [ppc EXCEPT ![t] = "start"]
            /\ rhist' = [rhist EXCEPT !.route[t] = "raised"]
            /\ UNCHANGED <<mu, registry, sfkey, sfcall, sfowner, returned, started,
                           sfhist, result_dict>>
  /\ UNCHANGED redis
  /\ UNCHANGED outsideRead

\* _execute_pnl_query, last part: `self.redis_client.setex(cache_key, 1800, ...)`
\* and `return result_dict`
ProducerStore(t) ==
  /\ sfpc[t] = "run"
  /\ ppc[t] = "store"
  /\ redis' = result_dict[t]
  /\ ProducerReturns(t, result_dict[t])
  /\ rhist' = [rhist EXCEPT !.stored = result_dict[t],
                            !.late = @ \cup {u \in Threads : sfpc[u] = "lock"}]
  /\ UNCHANGED <<ch_queries, fnTotal>>
  /\ UNCHANGED outsideRead

\* the entry's TTL of 1800 s runs out
CacheExpire ==
  /\ redis # None
  /\ redis' = None
  /\ rhist' = [rhist EXCEPT !.rows = 0, !.stored = None, !.late = {}]
  /\ UNCHANGED <<ch_queries, ppc, result_dict>>
  /\ UNCHANGED sfvars
  /\ UNCHANGED outsideRead

NextRead ==
  \/ \E t \in Threads : ReadHit(t)
  \/ \E t \in Threads : ReadMiss(t)
  \/ \E t \in Threads : DoAcquire(t)
  \/ \E t \in Threads : DoCheckRegister(t)
  \/ \E t \in Threads : ProducerRecheck(t)
  \/ \E t \in Threads, outcome \in {"rows", "empty", "raise"} : ProducerQuery(t, outcome)
  \/ \E t \in Threads : ProducerStore(t)
  \/ \E t \in Threads : DoSetEvent(t)
  \/ \E t \in Threads : DoPopAcquire(t)
  \/ \E t \in Threads : DoPop(t)
  \/ \E t \in Threads : DoWait(t)
  \/ \E t \in Threads : DoFinish(t)
  \/ CacheExpire

Init == InitSF /\ InitRefresh /\ InitEtl /\ InitConnect /\ InitOverlap /\ InitReport /\ InitRead

SpecSF == Init /\ [][NextSF]_vars

SpecRefresh == Init /\ [][NextRefresh]_vars

SpecRefreshUntimed == Init /\ [][NextRefreshUntimed]_vars

SpecEtl == Init /\ [][NextEtl]_vars

SpecConnect == Init /\ [][NextConnect]_vars

SpecOverlap == Init /\ [][NextOverlap]_vars

SpecReport == Init /\ [][NextReport]_vars

SpecRead == Init /\ [][NextRead]_vars

\* the steps of do() a running thread takes by itself (everything except the
\* arrival of a call, the producer fn, and the two lock acquisitions)
DoProgress(t) ==
  DoCheckRegister(t) \/ DoSetEvent(t) \/ DoPop(t) \/ DoWait(t) \/ DoFinish(t)

\* the calls of the fair-scheduler specification all carry one key: they
\* contend for self._mu and for the same registry record
LiveKeys == {1}

NextSFLive ==
  \/ \E t \in Threads, k \in LiveKeys : DoEnter(t, k)
  \/ \E t \in Threads : DoAcquire(t)
  \/ \E t \in Threads : DoCheckRegister(t)
  \/ \E t \in Threads : DoFnReturn(t)
  \/ \E t \in Threads : DoFnRaise(t)
  \/ \E t \in Threads : DoSetEvent(t)
  \/ \E t \in Threads : DoPopAcquire(t)
  \/ \E t \in Threads : DoPop(t)
  \/ \E t \in Threads : DoWait(t)
  \/ \E t \in Threads : DoFinish(t)

\* SingleFlight under a fair scheduler: a runnable thread keeps running, and a
\* thread blocked on self._mu gets the lock when it is released again and
\* again; nothing is assumed about fn terminating or about calls arriving
SpecSFLive ==
  /\ Init
  /\ [][NextSFLive]_vars
  /\ \A t \in Threads : WF_vars(DoProgress(t))
  /\ \A t \in Threads : SF_vars(DoAcquire(t) \/ DoPopAcquire(t))

\* ---------------------------------------------------------------------------
\* Properties of SingleFlight
\* ---------------------------------------------------------------------------
OwnerPhase == {"run", "set", "poplock", "pop"}

ReturnedOf(c) == {r \in returned : r.call = c}

\* C1: callers that meet on a key while its record is registered share one
\* execution: at most one owner per key is in flight, fn is invoked at most
\* once per in-flight record and only by its owner, a caller returns only
\* after that invocation, and every caller of one record returns the single
\* outcome fn produced for it.
C1_OneExecutionSharedResult ==
  /\ \A t1, t2 \in Threads :
       (t1 # t2 /\ sfpc[t1] \in OwnerPhase /\ sfpc[t2] \in OwnerPhase)
         => sfkey[t1] # sfkey[t2]
  /\ \A c \in 1..Len(callObj) :
       /\ Len(fnLog[c]) <= 1
       /\ Cardinality(fnBy[c]) <= 1
       /\ \A r \in ReturnedOf(c) :
            /\ Len(fnLog[c]) = 1
            /\ r.kind = fnLog[c][1].kind
            /\ r.val = fnLog[c][1].val
            /\ (~r.owner) => r.thread \notin fnBy[c]
       /\ \A r1, r2 \in ReturnedOf(c) : r1.kind = r2.kind /\ r1.val = r2.val
  /\ \A t \in Threads :
       (sfpc[t] \in {"wait", "ret"} /\ ~sfowner[t]) => t \notin fnBy[sfcall[t]]

\* C1 witness: one owner and two waiters returned the same value of one record
C1_Witness ==
  \E c \in 1..Len(callObj) :
    /\ Cardinality({r.thread : r \in ReturnedOf(c)}) = 3
    /\ \E r \in ReturnedOf(c) : ~r.owner /\ r.kind = "value"
    /\ Len(fnLog[c]) = 1

AllSourceRows == pnl_user_summary \cup pnl_user_summary_mt4live2

PastCandidates == {"accounts", "orphans", "mapping", "summary", "stats"}

\* the candidates step has run and did not fail
Staged == pc \in PastCandidates \/ (pc = "done" /\ result.success)

\* the candidates entry of the steps list
CandidatesStep == IF pc = "done" THEN result.steps[2] ELSE steps[2]

HistCandIds == {c.client_id : c \in hist.cand}

\* C3: a refresh that follows a successful refresh with no source write in
\* between finds no candidate: it never reaches the account upsert, returns
\* success with only the watermark and candidates steps (total 0, no affected
\* rows) and leaves pnl_client_accounts and pnl_client_summary as they were.
C3_RefreshIdempotent ==
  /\ hist.quiet >= 1 => pc \notin PastCandidates
  /\ (pc = "done" /\ result.success /\ hist.quiet = 2) =>
       /\ result.steps = <<[name |-> "watermark"],
                           [name |-> "candidates", total |-> 0, missing |-> 0, lag |-> 0]>>
       /\ hist.cand = {}
       /\ pnl_client_accounts = hist.pre_accounts
       /\ pnl_client_summary = hist.pre_summary

\* C3 witness: the second of two successful refreshes over unchanged sources,
\* the first of which built aggregate rows
C3_Witness ==
  /\ pc = "done" /\ result.success /\ hist.quiet = 2
  /\ pnl_client_summary # {} /\ pnl_client_accounts # {}

\* C4: while the transaction is open the committed tables are untouched, and a
\* refresh that fails returns success = false with a message and leaves
\* pnl_client_accounts and pnl_client_summary exactly as before the run.
C4_FailedRefreshChangesNothing ==
  /\ pc \in InTry =>
       /\ pnl_client_accounts = hist.pre_accounts
       /\ pnl_client_summary = hist.pre_summary
  /\ (pc = "done" /\ ~result.success) =>
       /\ result.message # ""
       /\ pnl_client_accounts = hist.pre_accounts
       /\ pnl_client_summary = hist.pre_summary

\* C4 witness: the enrichment fetch failed after the transaction had upserted
\* account rows and deleted an orphan
C4_Witness ==
  /\ pc = "done" /\ ~result.success
  /\ hist.discarded.at = "mapping"
  /\ hist.discarded.accounts \ pnl_client_accounts # {}
  /\ \E a \in pnl_client_accounts :
       ~\E b \in hist.discarded.accounts : AccountKey(b) = AccountKey(a)

\* C5: once the candidates step has run, every entity that had a summary row
\* and a source row whose last_updated is greater than the summary row's
\* last_updated is in the candidate set with reason 'lag'.
C5_LaggingAreCandidates ==
  Staged =>
    \A u \in Clients :
      (\E cs \in hist.pre_summary :
         /\ cs.client_id = u
         /\ cs.last_updated # NULL
         /\ \E r \in AllSourceRows :
              r.user_id = u /\ r.last_updated # NULL /\ r.last_updated > cs.last_updated)
        => [client_id |-> u, reason |-> "lag"] \in hist.cand

\* C5 witness: a lagging entity has been staged
C5_Witness ==
  /\ pc = "accounts"
  /\ \E c \in temp_candidates : c.reason = "lag"
  /\ \E cs \in pnl_client_summary : \E r \in AllSourceRows :
       r.user_id = cs.client_id /\ r.last_updated > cs.last_updated

\* C6: the candidate set is exactly the entities with a non-null source
\* user_id and no summary row (tagged 'missing') together with the lagging
\* ones (tagged 'lag'); no entity is listed twice, and the reported total is
\* the number of candidates and equals missing + lag.
C6_CandidateSetShape ==
  Staged =>
    LET missing == {u \in Clients :
                      /\ \E r \in AllSourceRows : r.user_id = u
                      /\ ~\E cs \in hist.pre_summary : cs.client_id = u}
        lagging == {u \in Clients :
                      \E cs \in hist.pre_summary :
                        /\ cs.client_id = u
                        /\ \E r \in AllSourceRows :
                             r.user_id = u /\ r.last_updated > cs.last_updated}
    IN /\ HistCandIds = missing \cup lagging
       /\ \A c \in hist.cand :
            c.reason = (IF c.client_id \in missing THEN "missing" ELSE "lag")
       /\ \A c1, c2 \in hist.cand : c1.client_id = c2.client_id => c1 = c2
       /\ CandidatesStep.total = Cardinality(hist.cand)
       /\ CandidatesStep.total = CandidatesStep.missing + CandidatesStep.lag
       /\ CandidatesStep.missing = Cardinality(missing)

\* C6 witness: one missing and one lagging entity staged together
C6_Witness ==
  /\ pc = "accounts"
  /\ \E c1, c2 \in temp_candidates : c1.reason = "missing" /\ c2.reason = "lag"

\* C7: an account row of an entity that is not a candidate of the run is in
\* the table after the orphan deletion, and after the commit, whether or not
\* it still has a source row.
C7_OrphanBound ==
  /\ pc \in {"mapping", "summary", "stats"} =>
       \A a \in hist.pre_accounts : a.client_id \notin HistCandIds => a \in tx_accounts
  /\ (pc = "done" /\ result.success) =>
       \A a \in hist.pre_accounts :
         a.client_id \notin HistCandIds => a \in pnl_client_accounts

\* C7 witness: a run with candidates committed, and the orphaned account row
\* of a non-candidate is still there
C7_Witness ==
  /\ pc = "done" /\ result.success /\ hist.cand # {}
  /\ \E a \in pnl_client_accounts :
       /\ a.client_id \notin HistCandIds
       /\ ~\E r \in AllSourceRows : r.user_id = a.client_id /\ r.login = a.login

\* the candidates whose summary row exists and for whom the secondary store
\* returned no mapping row
UnmappedWithSummary ==
  {u \in HistCandIds :
     /\ \E cs \in hist.pre_summary : cs.client_id = u
     /\ ~\E m \in temp_fx_user_map : m.client_id = u}

PreSummaryRow(u) == CHOOSE cs \in hist.pre_summary : cs.client_id = u

TxSummaryRow(u) == CHOOSE cs \in tx_summary : cs.client_id = u

\* C8 as stated: after the summary upsert, a candidate that had a summary row
\* and got no mapping row keeps its zipcode and is_enabled.
C8_Original ==
  pc = "stats" =>
    \A u \in UnmappedWithSummary :
      /\ TxSummaryRow(u).zipcode = PreSummaryRow(u).zipcode
      /\ TxSummaryRow(u).is_enabled = PreSummaryRow(u).is_enabled

\* C8 amended: after the summary upsert, a candidate that had a summary row,
\* has an account row and got no mapping row has zipcode NULL and is_enabled 1
\* (the default), whatever the row held before.
C8_AbsentMappingResets ==
  pc = "stats" =>
    \A u \in UnmappedWithSummary :
      (\E a \in tx_accounts : a.client_id = u) =>
        /\ TxSummaryRow(u).zipcode = NULL
        /\ TxSummaryRow(u).is_enabled = 1

\* C8 witness: a stored zipcode and a stored is_enabled = 0 were overwritten
C8_Witness ==
  /\ pc = "stats"
  /\ \E u \in UnmappedWithSummary :
       /\ PreSummaryRow(u).zipcode # NULL
       /\ PreSummaryRow(u).is_enabled = 0
       /\ TxSummaryRow(u).zipcode = NULL

\* the source row an account row stands for: same entity, login and server
SourceOf(a) ==
  {t \in TaggedSource :
     t.srv = a.server /\ t.row.login = a.login /\ t.row.user_id = a.client_id}

\* an amount divided by 100 when the currency is 'CEN', unchanged otherwise,
\* to 4 decimals (money in 10^-2, lots in 10^-6, the result in 10^-4)
Normalized(currency, money, lots) ==
  [money |-> IF currency = "CEN" THEN money ELSE money * 100,
   lots |-> IF currency = "CEN" THEN RoundDiv(lots, 10000) ELSE RoundDiv(lots, 100)]

\* C9 as stated: after a refresh every account row of a candidate carries its
\* source row's balance and volume, divided by 100 when the row's currency is
\* 'CEN' and unchanged otherwise.
C9_Original ==
  (pc = "done" /\ result.success) =>
    \A a \in pnl_client_accounts :
      a.client_id \in HistCandIds =>
        \A t \in SourceOf(a) :
          LET n == Normalized(a.currency, t.row.user_balance,
                              t.row.closed_sell_volume_lots + t.row.closed_buy_volume_lots)
          IN a.balance_usd = n.money /\ a.volume_lots = n.lots

\* C10 as stated: after a refresh every (login, server) combination of a
\* candidate in the source tables has its own account row, keyed
\* (client_id, login, server), with that combination's amounts only.
C10_Original ==
  (pc = "done" /\ result.success) =>
    \A t \in TaggedSource :
      t.row.user_id \in HistCandIds =>
        \E a \in pnl_client_accounts :
          /\ AccountKey(a) = <<t.row.user_id, t.row.login, t.srv>>
          /\ a.balance_usd =
               Normalized(t.row.currency, t.row.user_balance, 0).money

\* C11 as stated: after the orphan-deletion step every remaining account row
\* of a candidate has a source row of the same entity and login in the table
\* of the row's own server.
C11_Original ==
  pc \in {"mapping", "summary", "stats"} =>
    \A a \in tx_accounts :
      a.client_id \in CandIds(temp_candidates) => SourceOf(a) # {}

\* the committed account rows of an entity
CommittedAccountsOf(u) == {a \in pnl_client_accounts : a.client_id = u}

\* C12: after a successful refresh every candidate has exactly one summary
\* row; its account_count is the number of distinct (login, server) among the
\* entity's committed account rows, and its totals are the sums of the
\* corresponding columns over those rows.
C12_SummaryConsistent ==
  (pc = "done" /\ result.success) =>
    \A u \in HistCandIds :
      LET own == CommittedAccountsOf(u)
          rows == {cs \in pnl_client_summary : cs.client_id = u}
      IN /\ Cardinality(rows) = 1
         /\ \A cs \in rows :
              /\ cs.account_count = Cardinality({<<a.login, a.server>> : a \in own})
              /\ cs.total_balance_usd = SumOf(own, "balance_usd")
              /\ cs.total_volume_lots = SumOf(own, "volume_lots")
              /\ cs.total_overnight_volume_lots = SumOf(own, "overnight_volume_lots")

\* C12 witness: a committed refresh of a candidate that holds the same login
\* on both servers, whose summary counts two accounts with a non-zero volume
C12_Witness ==
  /\ pc = "done" /\ result.success
  /\ \E u \in HistCandIds :
       /\ \E a, b \in CommittedAccountsOf(u) : a.login = b.login /\ a.server # b.server
       /\ \E cs \in pnl_client_summary :
            cs.client_id = u /\ cs.account_count = 2 /\ cs.total_volume_lots > 0

\* C13: when the candidates step stages nothing, none of the later steps is
\* entered, and the refresh returns success with exactly the watermark and
\* candidates entries (total 0) and leaves pnl_client_accounts and
\* pnl_client_summary as they were before the run.
C13_EmptyCandidatesNoOp ==
  /\ pc \in PastCandidates => hist.cand # {}
  /\ (pc = "done" /\ result.success /\ hist.cand = {}) =>
       /\ Len(result.steps) = 2
       /\ result.steps[1].name = "watermark"
       /\ result.steps[2].name = "candidates"
       /\ result.steps[2].total = 0
       /\ result.max_last_updated = NULL
       /\ pnl_client_accounts = hist.pre_accounts
       /\ pnl_client_summary = hist.pre_summary

\* C13 witness: a no-op success over tables that hold rows, with source rows
\* present (one of them without an entity)
C13_Witness ==
  /\ pc = "done" /\ result.success /\ hist.cand = {}
  /\ Len(result.steps) = 2
  /\ pnl_client_accounts # {} /\ pnl_client_summary # {}
  /\ \E r \in AllSourceRows : r.user_id = NULL

\* the positions of do() after the check-and-register block
PastCheck == {"run", "wait", "set", "poplock", "pop", "ret"}

\* C14 as stated: a caller never shares the record of an execution for its key
\* that had already finished (result stored, completion signalled) when the
\* caller began its do().
C14_Original ==
  \A t \in Threads :
    sfpc[t] \in PastCheck => sfcall[t] \notin sfhist.finishedAtEntry[t]

\* C14 amended: a caller never shares the record of an execution for its key
\* that its owner had already removed from the registry when the caller began;
\* a caller that found the key unregistered is the owner of a record made
\* after it began, and has invoked its own fn before it stores a result.
C14_NoResultAfterRemoval ==
  \A t \in Threads :
    sfpc[t] \in PastCheck =>
      /\ sfcall[t] \notin sfhist.poppedAtEntry[t]
      /\ sfowner[t] => sfcall[t] \notin sfhist.finishedAtEntry[t]
      /\ (sfowner[t] /\ sfpc[t] # "run") =>
           /\ t \in fnBy[sfcall[t]]
           /\ Len(fnLog[sfcall[t]]) = 1

\* C14 witness: a caller that began after an execution for its key was removed
\* has become the owner of a new record and is about to return its own outcome
C14_Witness ==
  \E t \in Threads :
    /\ sfpc[t] = "ret" /\ sfowner[t]
    /\ sfhist.poppedAtEntry[t] # {}
    /\ \A c \in sfhist.poppedAtEntry[t] :
         fnLog[c][1].val # fnLog[sfcall[t]][1].val

\* a caller holds a record whose fn has terminated (returned or raised)
FnTerminatedFor(t) ==
  /\ sfpc[t] \in {"wait", "set", "poplock", "pop", "ret"}
  /\ Len(fnLog[sfcall[t]]) = 1

\* C15: once the owner's fn has terminated, the owner and every waiter that
\* holds the record eventually return from do().
C15_CallersEventuallyReturn ==
  \A t \in Threads : FnTerminatedFor(t) ~> (sfpc[t] = "idle")

\* C15 witness: the owner and two waiters of one record have all returned and
\* no thread is left inside do()
C15_Witness ==
  /\ \A t \in Threads : sfpc[t] = "idle"
  /\ \E c \in 1..Len(callObj) :
       /\ \E r \in ReturnedOf(c) : r.owner
       /\ Cardinality({r.thread : r \in {x \in ReturnedOf(c) : ~x.owner}}) = 2

\* ---------------------------------------------------------------------------
\* Properties of the source ETL
\* ---------------------------------------------------------------------------

\* the datasets of mt5_incremental_refresh and mt4live2_incremental_refresh
LockedDatasets == {DatasetOf(f) : f \in {c \in EtlCalls : TakesAdvisoryLock(c)}}

\* C16: no step of any run of the two incremental refreshes (succeeding,
\* failing or skipped on the lock) lowers the last_deal_id stored for its
\* dataset, or removes it.
C16_WatermarkMonotonic ==
  [][\A d \in LockedDatasets :
       etl_watermarks[d] # NULL =>
         (etl_watermarks'[d] # NULL /\ etl_watermarks'[d] >= etl_watermarks[d])]_vars

\* C16 witness: a run that started from watermark 1 has committed watermark 2
\* while another invocation was turned away by the lock
C16_Witness ==
  \E r, o \in EtlRuns :
    /\ TakesAdvisoryLock(efn[r]) /\ epc[r] = "unlock"
    /\ eresult[r].outcome = "success"
    /\ ehist[r].wm = 1
    /\ etl_watermarks[DatasetOf(efn[r])] = 2
    /\ eresult[o].outcome = "in_progress" /\ efn[o] = efn[r]

\* the last_deal_id a reader takes from a dataset's row (0 without a row)
StoredLastDealId(d) == IF etl_watermarks[d] = NULL THEN 0 ELSE etl_watermarks[d]

\* C17: the additive totals and the last_deal_id of a dataset change only in
\* the commit of a run that reports success, and that commit leaves the
\* watermark at the run's max_deal_id; a run of the incremental refreshes that
\* failed has, when it releases the lock, left both as they were at its start.
C17_CommitTogether ==
  /\ [][\A d \in Datasets :
          (closed_totals'[d] # closed_totals[d]
             \/ StoredLastDealId(d)' # StoredLastDealId(d)) =>
            \E r \in EtlRuns :
              /\ DatasetOf(efn[r]) = d
              /\ epc[r] = "commit"
              /\ eresult'[r].outcome = "success"
              /\ TakesAdvisoryLock(efn[r]) => etl_watermarks'[d] = max_deal_id[r]]_vars
  /\ [](\A r \in EtlRuns :
          (epc[r] = "unlock" /\ eresult[r].outcome = "raised") =>
            /\ closed_totals[DatasetOf(efn[r])] = ehist[r].totals
            /\ StoredLastDealId(DatasetOf(efn[r])) =
                 (IF ehist[r].wm = NULL THEN 0 ELSE ehist[r].wm))

\* C17 witness: a run failed after its transaction had upserted a delta and
\* written the watermark, over a table that already held committed totals
C17_Witness ==
  \E r \in EtlRuns :
    /\ epc[r] = "unlock" /\ eresult[r].outcome = "raised"
    /\ ehist[r].discarded.op = "add"
    /\ ehist[r].discarded.wm # NULL
    /\ ehist[r].totals > 0
    /\ closed_totals[DatasetOf(efn[r])] = ehist[r].totals

\* ---------------------------------------------------------------------------
\* Ratio sentinel
\* ---------------------------------------------------------------------------

Abs(x) == IF x >= 0 THEN x ELSE 0 - x

\* status (units 10^-4) is -1.0000 for volume 0, and otherwise the multiple of
\* 10^-4 nearest to 1 - overnight / volume:
\* |status * volume - (volume - overnight) * 10^4| <= volume / 2
RatioRule(volume, overnight, status) ==
  IF volume = 0
    THEN status = -10000
    ELSE Abs(status * volume - (volume - overnight) * 10000) <= volume \div 2

\* C19: every account row of pnl_client_accounts, committed or written by the
\* running refresh, carries the sentinel -1.0000 when its volume_lots is 0 and
\* the rounded ratio otherwise, and so does every summary row over its totals.
C19_RatioSentinel ==
  /\ \A a \in pnl_client_accounts \cup tx_accounts :
       RatioRule(a.volume_lots, a.overnight_volume_lots, a.auto_swap_free_status)
  /\ \A cs \in pnl_client_summary \cup tx_summary :
       RatioRule(cs.total_volume_lots, cs.total_overnight_volume_lots,
                 cs.auto_swap_free_status)

\* C19 witness: a refresh has committed a zero-volume account row with the
\* sentinel next to a row with overnight volume, and a summary row of each kind
C19_Witness ==
  /\ pc = "done" /\ result.success
  /\ \E a, b \in pnl_client_accounts :
       /\ a.volume_lots = 0 /\ a.auto_swap_free_status = -10000
       /\ b.volume_lots > 0 /\ b.overnight_volume_lots > 0
       /\ b.auto_swap_free_status \in 1..9999
  /\ \E cs, ct \in pnl_client_summary :
       /\ cs.total_volume_lots = 0 /\ cs.auto_swap_free_status = -10000
       /\ ct.total_volume_lots > 0 /\ ct.auto_swap_free_status \in 1..9999

\* ---------------------------------------------------------------------------
\* Configuration errors
\* ---------------------------------------------------------------------------

\* the invocation has reported a missing setting
ConfigErrorReported ==
  /\ cpc \in {"except", "finally", "done"}
  /\ ~cresult.success
  /\ cresult.message.kind = "missing"

\* C20: whenever a refresh reports a missing required setting, Postgres or
\* MySQL, no connection to any store had been opened when the error was raised,
\* and the invocation made one attempt only.
C20_Original ==
  ConfigErrorReported => (chist.at_error = {} /\ chist.attempts = 1)

\* ---------------------------------------------------------------------------
\* Overlapping refreshes
\* ---------------------------------------------------------------------------

\* C18: the step that ends an overlap in which at least one invocation
\* succeeded leaves pnl_client_accounts and pnl_client_summary equal to what
\* one refresh alone would have produced from the tables the overlap started on.
C18_OverlapHarmless ==
  [][(~NoneRunning /\ NoneRunning' /\ ohist'.succeeded >= 1) =>
       /\ pnl_client_accounts' = ohist.expect_accounts
       /\ pnl_client_summary' = ohist.expect_summary]_vars

\* C18 witness: two invocations overlapped, both found candidates and both
\* committed, over tables that already held rows of an earlier refresh
C18_Witness ==
  /\ NoneRunning
  /\ ohist.both_wrote
  /\ Cardinality(pnl_client_accounts) >= 2
  /\ \E a \in pnl_client_accounts : a.last_updated >= 2

\* ---------------------------------------------------------------------------
\* SingleFlight lock scope
\* ---------------------------------------------------------------------------

\* C21: self._mu is held only inside the two `with` blocks: a thread that is
\* running fn, signalling, waiting on the event or returning does not hold it,
\* so whoever holds it is about to release it without waiting for any fn.
C21_LockNotHeldInFn ==
  \A t \in Threads : mu = t => sfpc[t] \in {"check", "pop"}

\* C21 witness: the owner for one key is still inside fn while another thread
\* has registered a later record for a different key, run its own fn and
\* returned its value
C21_Witness ==
  \E a \in Threads : \E r \in returned :
    /\ sfpc[a] = "run"
    /\ r.thread # a
    /\ r.owner /\ r.kind = "value"
    /\ r.call > sfcall[a]
    /\ sfhist.lastCall[sfkey[a]] = sfcall[a]
    /\ \E k \in Keys \ {sfkey[a]} : sfhist.lastCall[k] = r.call

\* ---------------------------------------------------------------------------
\* Replace upsert
\* ---------------------------------------------------------------------------

\* C22: right after the account upsert, the transaction's table holds, for every
\* key the statement computed, exactly the freshly computed row, whatever the
\* table held under that key before; rows of other keys are as they were; and
\* running the upsert again on the same source changes nothing.
C22_ReplaceUpsert ==
  pc = "orphans" =>
    LET fresh == Rolled(temp_candidates)
        keys == {AccountKey(r) : r \in fresh}
    IN /\ {a \in tx_accounts : AccountKey(a) \in keys} = fresh
       /\ {a \in tx_accounts : AccountKey(a) \notin keys}
            = {a \in hist.pre_accounts : AccountKey(a) \notin keys}
       /\ UpsertAccounts(tx_accounts, fresh) = tx_accounts

\* C22 witness: the upsert has hit an existing row whose contents differed from
\* the freshly computed ones
C22_Witness ==
  /\ pc = "orphans"
  /\ \E r \in Rolled(temp_candidates) : \E old \in hist.pre_accounts :
       /\ AccountKey(old) = AccountKey(r)
       /\ old.balance_usd # r.balance_usd
       /\ old.volume_lots # r.volume_lots
       /\ r \in tx_accounts /\ old \notin tx_accounts

\* ---------------------------------------------------------------------------
\* NULL timestamps and the lag rule
\* ---------------------------------------------------------------------------

\* the entities with a source row whose last_updated is NULL
HasUntimedRow(u) ==
  \E t \in TaggedSource : t.row.user_id = u /\ t.row.last_updated = NULL

\* the candidates step has run and the run has not ended
CandidatesStaged == pc \in PastCandidates

Min(a, b) == IF a <= b THEN a ELSE b

PastLock == {"read", "extract", "load", "watermark", "commit", "unlock"}

\* the invocations of the incremental refresh of dataset d that are past the
\* lock acquisition
Holders(d) ==
  {r \in EtlRuns : TakesAdvisoryLock(efn[r]) /\ DatasetOf(efn[r]) = d /\ epc[r] \in PastLock}

\* C25: for each of the two incremental refreshes at most one invocation is past
\* lock acquisition, and the lock is held by exactly that invocation - so it is
\* free again whenever its holder has left, by return or by exception; an
\* invocation that found the lock held reports 'in progress' with
\* processed_rows = 0, has read no watermark and has no pending write, and its
\* step changes neither the summary totals nor the watermark.
C25_AdvisoryLock ==
  /\ [](\A d \in LockedDatasets :
          /\ Cardinality(Holders(d)) <= 1
          /\ \A r \in EtlRuns : (advisory[d] = r) <=> (r \in Holders(d)))
  /\ [](\A r \in EtlRuns :
          eresult[r].outcome = "in_progress" =>
            /\ epc[r] = "done"
            /\ eresult[r].processed_rows = 0
            /\ eresult[r].new_max_deal_id = NULL
            /\ last_deal_id[r] = 0
            /\ etx[r] = NoTx)
  /\ [][\A r \in EtlRuns :
          (eresult[r].outcome # "in_progress" /\ eresult'[r].outcome = "in_progress") =>
            (etl_watermarks' = etl_watermarks /\ closed_totals' = closed_totals)]_vars

\* C25 witness: an invocation raised after upserting, the lock it held is free
\* again and has been taken by the next invocation of the same refresh, which
\* is now loading
C25_Witness ==
  \E r, o \in EtlRuns :
    /\ r # o
    /\ TakesAdvisoryLock(efn[r]) /\ efn[o] = efn[r]
    /\ epc[r] = "done" /\ eresult[r].outcome = "raised"
    /\ ehist[r].discarded.op = "add"
    /\ advisory[DatasetOf(efn[r])] = o
    /\ epc[o] = "load"

\* ---------------------------------------------------------------------------
\* Registry
\* ---------------------------------------------------------------------------

\* the owners of key k that have registered a record and not yet removed it
OwnersInFlight(k) ==
  {t \in Threads : sfowner[t] /\ sfkey[t] = k /\ sfpc[t] \in {"run", "set", "poplock", "pop"}}

\* C26: for every key at most one owner is between registering and removing a
\* record, and the registry holds a record for the key exactly while that owner
\* is, namely the record it registered; a record enters the registry only in
\* the step of the caller that becomes its owner, on a key that had none; it
\* leaves only in the pop of that same owner, after the record's event is set;
\* a record is never replaced by another.
C26_RegistryInvariant ==
  /\ [](\A k \in Keys :
          /\ Cardinality(OwnersInFlight(k)) <= 1
          /\ (registry[k] = None) <=> (OwnersInFlight(k) = {})
          /\ \A t \in OwnersInFlight(k) : registry[k] = sfcall[t])
  /\ [][\A k \in Keys :
          registry'[k] # registry[k] =>
            \/ /\ registry[k] = None
               /\ \E t \in Threads :
                    /\ sfpc[t] = "check" /\ mu = t /\ sfkey[t] = k
                    /\ sfowner'[t] /\ sfcall'[t] = registry'[k]
                    /\ registry'[k] = Len(callObj) + 1
            \/ /\ registry'[k] = None
               /\ \E t \in Threads :
                    /\ sfpc[t] = "pop" /\ mu = t /\ sfkey[t] = k
                    /\ sfowner[t] /\ sfcall[t] = registry[k]
                    /\ callObj[registry[k]].event]_vars

\* C26 witness: an owner has removed its record and is about to return, and a
\* different owner has registered a new record for the same key and is
\* running the producer
C26_Witness ==
  \E t1, t2 \in Threads :
    /\ t1 # t2 /\ sfkey[t1] = sfkey[t2]
    /\ sfowner[t1] /\ sfpc[t1] = "ret" /\ sfcall[t1] \in sfhist.popped
    /\ sfowner[t2] /\ sfpc[t2] = "run"
    /\ registry[sfkey[t2]] = sfcall[t2]
    /\ sfcall[t1] # sfcall[t2]

\* ---------------------------------------------------------------------------
\* Read path
\* ---------------------------------------------------------------------------

\* the positions of do() after the producer has returned
AfterProducer == {"set", "poplock", "pop", "ret"}

\* C27: between two expiries of the cached entry at most one query that
\* returns rows is sent to ClickHouse, under every interleaving of the
\* requests; and a request that missed the cache before the value was stored
\* and became an owner afterwards has been served by the producer's cache
\* re-check with the stored value, without a query of its own.
C27_ReadPathOnce ==
  /\ rhist.rows <= 1
  /\ \A t \in rhist.late :
       (sfowner[t] /\ sfpc[t] \in AfterProducer) =>
         /\ rhist.route[t] = "recheck"
         /\ callObj[sfcall[t]].result = rhist.stored
         /\ fnLog[sfcall[t]] = <<[kind |-> "value", val |-> rhist.stored]>>

\* C27 witness: a request missed the cache while the owner's query was under
\* way, took the lock only after the owner had removed its record, became an
\* owner itself and is about to return the cached value; ClickHouse has been
\* queried once
C27_Witness ==
  \E t \in rhist.late :
    /\ sfowner[t] /\ sfpc[t] = "ret"
    /\ rhist.route[t] = "recheck"
    /\ redis # None /\ callObj[sfcall[t]].result = redis
    /\ sfcall[t] \in sfhist.poppedAtEntry[t] \cup sfhist.popped
    /\ ch_queries = 1

\* ---------------------------------------------------------------------------
\* Additive merge
\* ---------------------------------------------------------------------------

\* the committed last_deal_id of the MT5 dataset, 0 while there is no row
CommittedLastDealId ==
  IF etl_watermarks["pnl_user_summary"] = NULL THEN 0 ELSE etl_watermarks["pnl_user_summary"]

\* C28: whatever runs of mt5_incremental_refresh have succeeded, failed or
\* been skipped so far, the committed additive total of pnl_user_summary is
\* the sum of exactly the deals with id <= the committed last_deal_id: each
\* of them went in once, none above the watermark went in.
C28_ExactlyOnceMerge ==
  closed_totals["pnl_user_summary"] =
    WindowSum({i \in 1..deals["pnl_user_summary"] : i <= CommittedLastDealId})

\* C28 witness: the first deal was merged by an earlier run; of two later
\* runs that both started from watermark 1, one raised after upserting the
\* second deal and the other has merged it: total 11, watermark 2
C28_Witness ==
  \E r, o \in EtlRuns :
    /\ r # o
    /\ efn[r].fn = "mt5" /\ efn[o].fn = "mt5"
    /\ eresult[o].outcome = "raised" /\ ehist[o].discarded.op = "add" /\ ehist[o].wm = 1
    /\ eresult[r].outcome = "success" /\ ehist[r].wm = 1 /\ ehist[r].totals = 1
    /\ etl_watermarks["pnl_user_summary"] = 2
    /\ closed_totals["pnl_user_summary"] = 11

\* ---------------------------------------------------------------------------
\* Concurrent run_pnl_sync
\* ---------------------------------------------------------------------------

\* how often deal i is contained in an additive total
TimesCounted(total, i) == (total \div DealAmount(i)) % 10

\* C29: under every interleaving of run_pnl_sync invocations for the same
\* symbol each closed deal is contained in pnl_summary's committed additive
\* total at most once, and no step lowers the symbol's stored last_deal_id.
C29_Original ==
  /\ [](\A i \in 1..MaxDeal : TimesCounted(closed_totals["symbol"], i) <= 1)
  /\ [][~SqlGt(etl_watermarks["symbol"], etl_watermarks'["symbol"])]_vars

\* ---------------------------------------------------------------------------
\* Source deletions
\* ---------------------------------------------------------------------------

\* the step removes source rows and writes none
SourceRowsRemoved ==
  /\ pnl_user_summary' \subseteq pnl_user_summary
  /\ pnl_user_summary_mt4live2' \subseteq pnl_user_summary_mt4live2
  /\ AllSourceRows' # AllSourceRows

\* entity u has no source row left, or its newest source row is not newer than
\* the summary row it had when the run began
NotNewerThanSummary(u) ==
  \/ u \notin SourceUserIds
  \/ \E cs \in hist.pre_summary :
       cs.client_id = u /\ SrcLu(u) # NULL /\ cs.last_updated # NULL
         /\ SrcLu(u) <= cs.last_updated

\* C30: a step that only removes source rows adds no entity to the set the
\* candidates step would stage; and a successful refresh leaves the account
\* rows (orphaned ones included) and the summary row of every entity that has
\* no source row left, or none newer than its summary, exactly as they were.
C30_DeletionsNeverReconcile ==
  /\ [][SourceRowsRemoved =>
          (CandIds(StagedCandidates(pnl_client_summary)))'
            \subseteq CandIds(StagedCandidates(pnl_client_summary))]_vars
  /\ []((pc = "done" /\ result.success) =>
          \A u \in Clients :
            NotNewerThanSummary(u) =>
              /\ u \notin HistCandIds
              /\ CommittedAccountsOf(u) = {a \in hist.pre_accounts : a.client_id = u}
              /\ {cs \in pnl_client_summary : cs.client_id = u}
                   = {cs \in hist.pre_summary : cs.client_id = u})

\* C30 witness: one of an entity's two source rows was removed after a
\* refresh; the next refresh has succeeded, the entity still has the account
\* row of the removed source row, the other source row, and its summary
C30_Witness ==
  /\ pc = "done" /\ result.success
  /\ \E u \in SourceUserIds :
       /\ NotNewerThanSummary(u)
       /\ \E cs \in pnl_client_summary : cs.client_id = u /\ cs.account_count = 2
       /\ \E a \in CommittedAccountsOf(u) :
            ~\E t \in TaggedSource : t.row.login = a.login /\ t.srv = a.server

====
